---- MODULE Spec2Model ----
(***************************************************************************)
(* Verification model of the ai-inbox-zero triage pipeline:                *)
(*   - EmailAnalyzer.analyze_email            (src/ai_agent.py)            *)
(*   - DatabaseManager store operations       (src/db_manager.py)          *)
(*   - FastEmailScanner and the /scan route   (src/fast_scan.py, app.py)   *)
(*   - the single-flight scan_inbox handler   (src/enterprise_app.py)      *)
(*   - the priority scorer, the auto-pilot rules and process_email         *)
(*                                  (src/ultimate_app.py, working_app.py)  *)
(*   - the rate_limit decorator               (src/ai_agent.py)            *)
(*   - the /scan route of the apps and the mark_as_* store operations      *)
(* The specifications share the variables below; each one leaves the       *)
(* variables of the other components at their initial value.               *)
(***************************************************************************)
EXTENDS Integers, Sequences, FiniteSets, TLC

VARIABLES
    store,       \* email_history table: message id -> row
    creates,     \* per id: number of save_email_analysis calls that committed
    scan,        \* per /scan request thread: position, fetched batch, counters, report
    task,        \* per request thread and id: position of process_single_email
    started,     \* number of scan requests issued so far
    lastSave,    \* the last save_email_analysis call observed at the store interface
    processing,  \* app.state.processing of enterprise_app
    running,     \* the scan_inbox coroutine that holds the event loop thread
    req,         \* per scan_inbox request: position, pool, response
    call,        \* one analyze_email call: arguments, result, client calls
    variant,     \* the app module that runs: "ultimate_app" or "working_app"
    settings,    \* AUTO_PILOT_SETTINGS
    cache,       \* EMAIL_CACHE: message id -> data
    snoozed,     \* SNOOZED_EMAILS: the ids that are snoozed
    analytics,   \* ANALYTICS_DATA: total_processed
    gateway,     \* the Gmail operations requested so far, in order
    ret,         \* the last process_email call: message and result
    probe,       \* the scorer or the rules called on drawn arguments
    clock,       \* time.time(), in ticks
    calls_made,  \* the list the rate_limit decorator keeps for analyze_email
    caller,      \* per pool worker: position inside the rate_limit wrapper
    acquired,    \* per tick: calls the wrapper let through to analyze_email
    entered,     \* number of calls of the wrapper so far
    worker,      \* per message of a /scan request: position of process_email
    route,       \* the /scan request of the app: batch and processed_count
    lastMark     \* the last mark_as_* call observed at the store interface

vars == <<store, creates, scan, task, started, lastSave, processing, running, req, call,
          variant, settings, cache, snoozed, analytics, gateway, ret, probe,
          clock, calls_made, caller, acquired, entered, worker, route, lastMark>>

scanVars == <<store, creates, scan, task, started>>
flightVars == <<processing, running, req>>
appVars == <<variant, settings, cache, snoozed, analytics, gateway, ret, probe>>
limitVars == <<clock, calls_made, caller, acquired, entered>>
poolVars == <<worker, route>>
sideVars == <<limitVars, poolVars, lastMark>>

----------------------------------------------------------------------------
(* Text.  A string is a sequence of one-character strings, so that         *)
(* str.lower() and the substring test `p in s` are computed, not assumed.  *)

UpperAlpha == <<"A","B","C","D","E","F","G","H","I","J","K","L","M","N","O","P","Q","R","S","T","U","V","W","X","Y","Z">>
LowerAlpha == <<"a","b","c","d","e","f","g","h","i","j","k","l","m","n","o","p","q","r","s","t","u","v","w","x","y","z">>

LowerChar(c) ==
    IF \E k \in 1..Len(UpperAlpha) : UpperAlpha[k] = c
    THEN LowerAlpha[CHOOSE k \in 1..Len(UpperAlpha) : UpperAlpha[k] = c]
    ELSE c

UpperChar(c) ==
    IF \E k \in 1..Len(LowerAlpha) : LowerAlpha[k] = c
    THEN UpperAlpha[CHOOSE k \in 1..Len(LowerAlpha) : LowerAlpha[k] = c]
    ELSE c

\* str.lower()
lower(s) == [i \in 1..Len(s) |-> LowerChar(s[i])]

\* str.upper(), used to build inputs only
upper(s) == [i \in 1..Len(s) |-> UpperChar(s[i])]

\* str.capitalize()-like mixed case, used to build inputs only
capital(s) == [i \in 1..Len(s) |-> IF i = 1 THEN UpperChar(s[i]) ELSE s[i]]

\* `p in s` for strings
Contains(s, p) ==
    \E i \in 1..(Len(s) - Len(p) + 1) : SubSeq(s, i, i + Len(p) - 1) = p

\* dict.get(k, default)
Get(d, k, default) == IF k \in DOMAIN d THEN d[k] ELSE default

----------------------------------------------------------------------------
(* EmailAnalyzer (src/ai_agent.py)                                         *)

P_no_reply == <<"n","o","-","r","e","p","l","y">>
P_noreply == <<"n","o","r","e","p","l","y">>
P_donotreply == <<"d","o","n","o","t","r","e","p","l","y">>
P_do_not_reply == <<"d","o","-","n","o","t","-","r","e","p","l","y">>
P_notifications == <<"n","o","t","i","f","i","c","a","t","i","o","n","s">>
P_automated == <<"a","u","t","o","m","a","t","e","d">>
P_mailer_daemon == <<"m","a","i","l","e","r","-","d","a","e","m","o","n">>

no_reply_patterns ==
    {P_no_reply, P_noreply, P_donotreply, P_do_not_reply,
     P_notifications, P_automated, P_mailer_daemon}

\* a plausible slip: the patterns are matched against the sender as given
is_no_reply_sender_case_sensitive(sender) ==
    \E pattern \in no_reply_patterns : Contains(sender, pattern)

_is_no_reply_sender(sender) ==
    LET sender_lower == lower(sender)
    IN  \E pattern \in no_reply_patterns : Contains(sender_lower, pattern)

\* Reply texts are sequences of phrases; `"No reply needed" in reply` is a
\* test for the phrase.
NoReplyNeeded == <<"No reply needed">>
HasNoReplyNeeded(reply) == \E i \in 1..Len(reply) : reply[i] = "No reply needed"

W_newsletter == <<"n","e","w","s","l","e","t","t","e","r">>
W_unsubscribe == <<"u","n","s","u","b","s","c","r","i","b","e">>
W_promotion == <<"p","r","o","m","o","t","i","o","n">>

\* a plausible slip: the subject is matched as given, without lower()
generate_fallback_case_sensitive(sender, subject, body) ==
    LET news == \E word \in {W_newsletter, W_unsubscribe, W_promotion} :
                    Contains(subject, word)
    IN  [category |-> IF news THEN "Newsletter" ELSE "Personal",
         priority |-> "Medium",
         reply |-> IF news THEN NoReplyNeeded
                   ELSE <<"Dear sender,", "Thank you for your email", "automated acknowledgment">>,
         reasoning |-> "Fallback due to API unavailability",
         needs_reply |-> ~news,
         is_fallback |-> TRUE]

\* _generate_fallback_response: heuristic verdict when the API call failed
_generate_fallback_response(sender, subject, body) ==
    LET subject_lower == lower(subject)
        news == \E word \in {W_newsletter, W_unsubscribe, W_promotion} :
                    Contains(subject_lower, word)
    IN  [category |-> IF news THEN "Newsletter" ELSE "Personal",
         priority |-> "Medium",
         reply |-> IF news THEN NoReplyNeeded
                   ELSE <<"Dear sender,", "Thank you for your email", "automated acknowledgment">>,
         reasoning |-> "Fallback due to API unavailability",
         needs_reply |-> ~news,
         is_fallback |-> TRUE]

\* A response text is a sequence of lines and a line a sequence of tokens:
\* a line "Category: Spam" is <<"Category:", " ", "Spam">>.
RECURSIVE Join(_)
Join(tokens) == IF tokens = <<>> THEN "" ELSE Head(tokens) \o Join(Tail(tokens))

\* str.strip() on a token sequence
RECURSIVE strip(_)
strip(tokens) ==
    IF tokens = <<>> THEN <<>>
    ELSE IF Head(tokens) = " " THEN strip(Tail(tokens))
    ELSE IF tokens[Len(tokens)] = " " THEN strip(SubSeq(tokens, 1, Len(tokens) - 1))
    ELSE tokens

\* line.startswith(prefix), for a prefix that ends in the line's first colon
startswith(line, prefix) == Len(line) >= 1 /\ line[1] = prefix

\* line.split(':', 1)[1].strip() of a line whose first token ends in its first colon
after_colon(line) == strip(Tail(line))

\* the text as one string of phrases, lines separated by "\n"
RECURSIVE Flatten(_)
Flatten(lines) ==
    IF lines = <<>> THEN <<>>
    ELSE IF Len(lines) = 1 THEN lines[1]
    ELSE lines[1] \o <<"\n">> \o Flatten(Tail(lines))

\* the loop of _parse_text_response over the lines, from the values so far
RECURSIVE parse_lines(_, _)
parse_lines(lines, acc) ==
    IF lines = <<>> THEN acc
    ELSE LET line == Head(lines)
         IN  parse_lines(Tail(lines),
                 IF startswith(line, "Category:")
                 THEN [acc EXCEPT !.category = Join(after_colon(line))]
                 ELSE IF startswith(line, "Priority:")
                 THEN [acc EXCEPT !.priority = Join(after_colon(line))]
                 ELSE IF startswith(line, "Reply:")
                 THEN [acc EXCEPT !.reply = after_colon(line)]
                 ELSE acc)

\* _parse_text_response: defaults, overridden line by line
_parse_text_response(response_text) ==
    LET parsed == parse_lines(response_text,
                      [category |-> "Personal", priority |-> "Medium",
                       reply |-> Flatten(response_text)])
    IN  [category |-> parsed.category, priority |-> parsed.priority,
         reply |-> parsed.reply,
         reasoning |-> "Parsed from text format",
         needs_reply |-> ~HasNoReplyNeeded(parsed.reply)]

\* JSON text is a sequence of tokens in which every brace, quote, colon,
\* comma, blank and escape stands alone: {"reply": "On it"} is
\* <<"{", "\"", "reply", "\"", ":", " ", "\"", "On it", "\"", "}">>.

\* json.dumps of the characters of a str: quote, backslash and newline
\* are written as escapes
escape(tokens) ==
    [i \in 1..Len(tokens) |->
        IF tokens[i] = "\"" THEN "\\\""
        ELSE IF tokens[i] = "\\" THEN "\\\\"
        ELSE IF tokens[i] = "\n" THEN "\\n"
        ELSE tokens[i]]

\* json.loads of the characters between two quotes
unescape(tokens) ==
    [i \in 1..Len(tokens) |->
        IF tokens[i] = "\\\"" THEN "\""
        ELSE IF tokens[i] = "\\\\" THEN "\\"
        ELSE IF tokens[i] = "\\n" THEN "\n"
        ELSE tokens[i]]

\* a str of the verdict as tokens: the reply is a sequence of phrases,
\* every other str is one phrase
AsTokens(k, v) == IF k = "reply" THEN v ELSE <<v>>

json_string(tokens) == <<"\"">> \o escape(tokens) \o <<"\"">>

\* the verdict's only bool is needs_reply
json_value(k, v) ==
    IF k = "needs_reply" THEN <<IF v THEN "true" ELSE "false">>
    ELSE json_string(AsTokens(k, v))

\* the keys of a dict in the order json.dumps writes them
KeyOrder == <<"category", "priority", "reply", "reasoning", "needs_reply">>

RECURSIVE json_members(_, _, _)
json_members(data, keys, first) ==
    IF keys = <<>> THEN <<>>
    ELSE IF Head(keys) \notin DOMAIN data THEN json_members(data, Tail(keys), first)
    ELSE (IF first THEN <<>> ELSE <<",", " ">>)
         \o json_string(<<Head(keys)>>) \o <<":", " ">>
         \o json_value(Head(keys), data[Head(keys)])
         \o json_members(data, Tail(keys), FALSE)

\* json.dumps(data) for a dict of str and bool values
json_dumps(data) == <<"{">> \o json_members(data, KeyOrder, TRUE) \o <<"}">>

\* position of the first token at or after p that is not a blank
RECURSIVE skip_blanks(_, _)
skip_blanks(text, p) ==
    IF p <= Len(text) /\ text[p] = " " THEN skip_blanks(text, p + 1) ELSE p

\* position of the first quote at or after p, Len(text) + 1 if there is none
RECURSIVE closing_quote(_, _)
closing_quote(text, p) ==
    IF p > Len(text) \/ text[p] = "\"" THEN p ELSE closing_quote(text, p + 1)

\* a JSON string starting at p: its characters and the position after it;
\* a raw newline inside a string is rejected as json.loads rejects it
read_string(text, p) ==
    IF p > Len(text) \/ text[p] # "\"" THEN [ok |-> FALSE]
    ELSE LET q == closing_quote(text, p + 1)
             raw == SubSeq(text, p + 1, q - 1)
         IN  IF q > Len(text) \/ (\E i \in 1..Len(raw) : raw[i] = "\n")
             THEN [ok |-> FALSE]
             ELSE [ok |-> TRUE, value |-> unescape(raw), next |-> q + 1]

\* a JSON value starting at p: a string, true or false
read_value(text, p, key) ==
    IF p > Len(text) THEN [ok |-> FALSE]
    ELSE IF text[p] = "true"
    THEN [ok |-> TRUE, value |-> TRUE, bool |-> TRUE, next |-> p + 1]
    ELSE IF text[p] = "false"
    THEN [ok |-> TRUE, value |-> FALSE, bool |-> TRUE, next |-> p + 1]
    ELSE LET s == read_string(text, p)
         IN  IF ~s.ok THEN [ok |-> FALSE]
             ELSE [ok |-> TRUE, next |-> s.next, bool |-> FALSE,
                   value |-> IF key = "reply" THEN s.value ELSE Join(s.value)]

\* the members of an object from position p on, up to the closing brace
\* that ends the text; a key met twice keeps its last value; bools are the
\* keys whose value is true or false
RECURSIVE read_members(_, _, _, _)
read_members(text, p, acc, bools) ==
    LET k == read_string(text, skip_blanks(text, p))
    IN  IF ~k.ok THEN [ok |-> FALSE]
        ELSE LET c == skip_blanks(text, k.next)
                 key == Join(k.value)
             IN  IF c > Len(text) \/ text[c] # ":" THEN [ok |-> FALSE]
                 ELSE LET v == read_value(text, skip_blanks(text, c + 1), key)
                      IN  IF ~v.ok THEN [ok |-> FALSE]
                          ELSE LET n == skip_blanks(text, v.next)
                                   data == [x \in DOMAIN acc \cup {key} |->
                                               IF x = key THEN v.value ELSE acc[x]]
                                   bs == IF v.bool THEN bools \cup {key}
                                         ELSE bools \ {key}
                               IN  IF n = Len(text) /\ text[n] = "}"
                                   THEN [ok |-> TRUE, data |-> data, bools |-> bs]
                                   ELSE IF n < Len(text) /\ text[n] = ","
                                   THEN read_members(text, n + 1, data, bs)
                                   ELSE [ok |-> FALSE]

\* json.loads(json_str): ok is FALSE where json.loads raises
json_loads(json_str) ==
    IF Len(json_str) < 2 \/ json_str[1] # "{" \/ json_str[Len(json_str)] # "}"
    THEN [ok |-> FALSE]
    ELSE IF skip_blanks(json_str, 2) = Len(json_str)
    THEN [ok |-> TRUE, data |-> <<>>, bools |-> {}]
    ELSE read_members(json_str, 2, <<>>, {})

\* response_text.index(c) and response_text.rindex(c)
index(text, c) == CHOOSE i \in 1..Len(text) : text[i] = c /\ \A j \in 1..(i - 1) : text[j] # c
rindex(text, c) ==
    CHOOSE i \in 1..Len(text) : text[i] = c /\ \A j \in (i + 1)..Len(text) : text[j] # c

\* the text of a response, line by line: the model answers with the
\* serialisation of a JSON object on one line, or with lines of text
ResponseText(response) ==
    IF response.kind = "json" THEN <<json_dumps(response.data)>> ELSE response.lines

\* a plausible slip: the default of needs_reply is computed whether or not
\* the object carries the field
parse_response_overrides(response) ==
    LET lines == ResponseText(response)
        response_text == Flatten(lines)
        braces == (\E i \in 1..Len(response_text) : response_text[i] = "{")
                  /\ (\E i \in 1..Len(response_text) : response_text[i] = "}")
        loaded == json_loads(SubSeq(response_text, index(response_text, "{"),
                                    rindex(response_text, "}")))
    IN  IF ~braces \/ ~loaded.ok THEN _parse_text_response(lines)
        ELSE LET data == loaded.data
             IN  IF ~("category" \in DOMAIN data /\ "reply" \in DOMAIN data)
                 THEN _parse_text_response(lines)
                 ELSE IF "reply" \in loaded.bools THEN _parse_text_response(lines)
                 ELSE [k \in DOMAIN data \cup {"needs_reply"} |->
                         IF k = "needs_reply" THEN ~HasNoReplyNeeded(data["reply"])
                         ELSE data[k]]

\* _parse_response: the text between the first "{" and the last "}" is
\* loaded as JSON; an object with category and reply is returned, with
\* needs_reply filled in when it is absent; everything else, and every
\* exception, goes to the text parser
_parse_response(response) ==
    LET lines == ResponseText(response)
        response_text == Flatten(lines)
        braces == (\E i \in 1..Len(response_text) : response_text[i] = "{")
                  /\ (\E i \in 1..Len(response_text) : response_text[i] = "}")
        loaded == json_loads(SubSeq(response_text, index(response_text, "{"),
                                    rindex(response_text, "}")))
    IN  IF ~braces \/ ~loaded.ok THEN _parse_text_response(lines)
        ELSE LET data == loaded.data
             IN  IF ~("category" \in DOMAIN data /\ "reply" \in DOMAIN data)
                 THEN _parse_text_response(lines)
                 ELSE IF "needs_reply" \in DOMAIN data THEN data
                 \* `in` on a bool raises TypeError, which the except catches
                 ELSE IF "reply" \in loaded.bools THEN _parse_text_response(lines)
                 ELSE [k \in DOMAIN data \cup {"needs_reply"} |->
                         IF k = "needs_reply" THEN ~HasNoReplyNeeded(data["reply"])
                         ELSE data[k]]

\* analyze_email(sender, subject, body): `client` is what the Groq client
\* does if it is called: it returns a JSON object, returns text, or raises.
\* The result carries the number of client calls made.
analyze_email(sender, subject, body, client) ==
    IF _is_no_reply_sender(sender)
    THEN [result |-> [category |-> "Newsletter",
                      priority |-> "Low",
                      reply |-> NoReplyNeeded,
                      reasoning |-> "Automated no-reply sender",
                      needs_reply |-> FALSE],
          client_calls |-> 0]
    ELSE IF client.kind = "error"
         THEN [result |-> _generate_fallback_response(sender, subject, body),
               client_calls |-> 1]
         ELSE [result |-> _parse_response(client), client_calls |-> 1]

\* What the Groq client may answer
VerdictImportant ==
    [category |-> "Important", priority |-> "High", reply |-> <<"Hi, thanks for reaching out">>,
     reasoning |-> "work", needs_reply |-> TRUE]
VerdictSpam ==
    [category |-> "Spam", priority |-> "Low", reply |-> NoReplyNeeded,
     reasoning |-> "junk", needs_reply |-> FALSE]
\* the model is free to ask for a reply to a message it calls Spam
VerdictSpamReply ==
    [category |-> "Spam", priority |-> "Low", reply |-> <<"Please remove me from this list">>,
     reasoning |-> "junk", needs_reply |-> TRUE]

\* a JSON object with a category outside the prompt's four and no priority
VerdictOffList ==
    [category |-> "Urgent", reply |-> <<"On it">>, reasoning |-> "work"]
\* a JSON object without the required reply
VerdictNoReply ==
    [category |-> "Spam", priority |-> "Low"]

TextPlain == << <<"Sorry, I cannot classify this email">> >>
TextLabelled ==
    << <<"Category:", " ", "Newsletter">>, <<"Priority:", " ", "Low", " ">>,
       <<"Reply:", " ", "No reply needed">> >>
TextLooseLabels ==
    << <<"Category:", " ", "Important", "/", "Work">>, <<"Priority:", " ", "high">>,
       <<"Reply:", " ", "Thanks, will do">> >>

\* a reply with characters json.dumps escapes, and with braces
VerdictQuoted ==
    [category |-> "Personal", priority |-> "Medium",
     reply |-> <<"Say ", "\"", "hi", "\"", " ", "to", "\n", "{", "name", "}", "\\">>,
     reasoning |-> "chat", needs_reply |-> TRUE]
\* no needs_reply, and a reply that says none is needed
VerdictDefaultOff ==
    [category |-> "Newsletter", priority |-> "Low", reply |-> NoReplyNeeded,
     reasoning |-> "list"]
\* needs_reply given, against what the reply text says
VerdictOverride ==
    [category |-> "Newsletter", priority |-> "Low", reply |-> NoReplyNeeded,
     reasoning |-> "list", needs_reply |-> TRUE]

\* the three lines of the text format
line_format(category, priority, reply) ==
    << <<"Category:", " ">> \o category, <<"Priority:", " ">> \o priority,
       <<"Reply:", " ">> \o reply >>

LineCategories == {<<"Newsletter">>, <<"Important", "/", "Work">>}
LinePriorities == {<<"Low">>, <<"high">>}
LineReplies == {<<"Thanks, will do">>, <<"Dear ", "{", "name", "}">>, NoReplyNeeded}

\* the outcomes the scanner's classifications are run against
ScanClientOutcomes ==
    {[kind |-> "json", data |-> VerdictImportant],
     [kind |-> "json", data |-> VerdictSpam],
     [kind |-> "error"]}

ClientOutcomes ==
    ScanClientOutcomes \cup
    {[kind |-> "json", data |-> VerdictOffList],
     [kind |-> "json", data |-> VerdictNoReply],
     [kind |-> "json", data |-> VerdictSpamReply],
     [kind |-> "text", lines |-> TextPlain],
     [kind |-> "text", lines |-> TextLabelled],
     [kind |-> "text", lines |-> TextLooseLabels],
     [kind |-> "json", data |-> VerdictQuoted],
     [kind |-> "json", data |-> VerdictDefaultOff],
     [kind |-> "json", data |-> VerdictOverride]}
    \cup {[kind |-> "text", lines |-> line_format(c, p, r)] :
             c \in LineCategories, p \in LinePriorities, r \in LineReplies}

----------------------------------------------------------------------------
(* Inputs of analyze_email                                                 *)

S_at_host == <<"@","x",".","i","o">>
S_name == <<"B","o","b"," ","<">>

NearMisses ==
    {<<"n","o","_","r","e","p","l","y">>, <<"n","o","r","e","p","l">>,
     <<"n","o","t","i","f","i","c","a","t","i","o","n">>, <<"a","u","t","o","m","a","t","e">>,
     <<"m","a","i","l","e","r","d","a","e","m","o","n">>, <<"j","o","h","n">>,
     <<"s","u","p","p","o","r","t">>, <<"d","o","-","n","o","t","r","e","p","l","y">>}

SenderCores ==
    no_reply_patterns \cup {upper(p) : p \in no_reply_patterns}
                      \cup {capital(p) : p \in no_reply_patterns}
                      \cup NearMisses \cup {upper(p) : p \in NearMisses}

Senders == {pre \o core \o S_at_host : pre \in {<<>>, S_name}, core \in SenderCores}

Subjects ==
    {<<"W","e","e","k","l","y"," ","U","p","d","a","t","e","s">>,
     <<"P","r","o","j","e","c","t"," ","d","e","a","d","l","i","n","e">>,
     <<"M","o","n","t","h","l","y"," ","N","e","w","s","l","e","t","t","e","r">>,
     <<"U","N","S","U","B","S","C","R","I","B","E"," ","h","e","r","e">>,
     <<"p","r","o","m","o","t","i","o","n","s">>,
     <<"P","r","o","m","o"," ","n","e","w","s">>}

Bodies == {<<"Check out this week's highlights">>, <<>>}

NoCall == [state |-> "none"]

AnalyzeInit ==
    call \in {[state |-> "pending", sender |-> s, subject |-> j, body |-> b, client |-> c] :
                 s \in Senders, j \in Subjects, b \in Bodies, c \in ClientOutcomes}

\* One call of EmailAnalyzer.analyze_email on the drawn arguments
AnalyzeEmail ==
    /\ call.state = "pending"
    /\ LET r == analyze_email(call.sender, call.subject, call.body, call.client)
       IN  call' = [state |-> "returned", sender |-> call.sender, subject |-> call.subject,
                    body |-> call.body, client |-> call.client,
                    result |-> r.result, client_calls |-> r.client_calls]
    /\ UNCHANGED <<scanVars, lastSave, sideVars, flightVars, appVars>>

----------------------------------------------------------------------------
(* DatabaseManager (src/db_manager.py): the email_history table            *)

Ids == {"m1", "m2"}

\* number of attempt outcomes the environment fixes for one save call
MaxOutcomes == 3

\* What one write attempt (connect, INSERT OR REPLACE, commit) can do:
\*   commit - the row is written and committed
\*   locked - sqlite3.OperationalError, "database is locked"
\*   operr  - another sqlite3.OperationalError
\*   exc    - any other exception
AttemptOutcomes == {"commit", "locked", "operr", "exc"}
OutcomeSeqs == [1..MaxOutcomes -> AttemptOutcomes]

\* The outcome sequences the scanner's saves are run against: immediate
\* commit, commit on the first retry, contention on every attempt, and a
\* failure that is not contention.
ScanOutcomeSeqs ==
    {[k \in 1..MaxOutcomes |-> "commit"],
     [k \in 1..MaxOutcomes |-> IF k = 1 THEN "locked" ELSE "commit"],
     [k \in 1..MaxOutcomes |-> "locked"],
     [k \in 1..MaxOutcomes |-> "exc"]}

\* a plausible slip: one retry too few
max_retries_one_less == 3 - 1

max_retries == 3

OutcomeAt(outcomes, attempt) ==
    IF attempt + 1 <= Len(outcomes) THEN outcomes[attempt + 1] ELSE "locked"

\* The retry loop of save_email_analysis, `attempt` counted from 0 as
\* range(max_retries) does.  ret is the value returned ("True"/"False"), or
\* "raise" if an exception left the method; attempts is the number of write
\* attempts made; slept the backoff sleeps, in units of 0.5 s.
RECURSIVE save_attempts(_, _, _)
save_attempts(outcomes, attempt, slept) ==
    IF attempt >= max_retries
    THEN [ret |-> "False", attempts |-> attempt, slept |-> slept]
    ELSE LET o == OutcomeAt(outcomes, attempt)
         IN  IF o = "commit"
             THEN [ret |-> "True", attempts |-> attempt + 1, slept |-> slept]
             ELSE IF o = "locked" /\ attempt < max_retries - 1
                  THEN save_attempts(outcomes, attempt + 1, Append(slept, attempt + 1))
                  ELSE [ret |-> "False", attempts |-> attempt + 1, slept |-> slept]

\* Python's None, SQL's NULL
None == "None"

\* The row INSERT OR REPLACE writes: the columns it names, and the column
\* defaults (sent, archived, deleted = 0, sent_at NULL) for the others.
Row(email_data, ai_result) ==
    [sender |-> Get(email_data, "sender", <<>>),
     subject |-> Get(email_data, "subject", <<>>),
     category |-> Get(ai_result, "category", "Unknown"),
     priority |-> Get(ai_result, "priority", "Medium"),
     clean_reply |-> Get(ai_result, "reply", <<>>),
     needs_reply |-> Get(ai_result, "needs_reply", FALSE),
     is_fallback |-> Get(ai_result, "is_fallback", FALSE),
     sent |-> FALSE, sent_at |-> None, archived |-> FALSE, deleted |-> FALSE]

Upsert(st, email_id, row) ==
    [k \in DOMAIN st \cup {email_id} |-> IF k = email_id THEN row ELSE st[k]]

\* save_email_analysis: the value returned and the table afterwards
save_email_analysis(st, email_id, email_data, ai_result, outcomes) ==
    LET r == save_attempts(outcomes, 0, <<>>)
    IN  [ret |-> r.ret, attempts |-> r.attempts, slept |-> r.slept,
         store |-> IF r.ret = "True"
                   THEN Upsert(st, email_id, Row(email_data, ai_result))
                   ELSE st]

\* get_email_analysis: the row, or None when there is no row or the read
\* raised (the exception is logged and swallowed)
get_email_analysis(st, email_id, read_fails) ==
    IF read_fails THEN [found |-> FALSE]
    ELSE IF email_id \in DOMAIN st THEN [found |-> TRUE, row |-> st[email_id]]
    ELSE [found |-> FALSE]

\* UPDATE email_history SET <flag> = 1 WHERE email_id = ?
SetFlag(st, email_id, flag) ==
    IF email_id \in DOMAIN st THEN [st EXCEPT ![email_id][flag] = TRUE] ELSE st

\* ... SET sent = 1, sent_at = CURRENT_TIMESTAMP WHERE email_id = ?
SetSent(st, email_id) ==
    IF email_id \in DOMAIN st
    THEN [st EXCEPT ![email_id].sent = TRUE, ![email_id].sent_at = "CURRENT_TIMESTAMP"]
    ELSE st

\* a plausible slip: the statement is INSERT OR REPLACE, as in the save
mark_as_sent_upserts(st, email_id, fails) ==
    IF fails THEN [ret |-> FALSE, store |-> st]
    ELSE [ret |-> TRUE,
          store |-> IF email_id \in DOMAIN st THEN SetSent(st, email_id)
                    ELSE Upsert(st, email_id,
                                [Row(<<>>, <<>>) EXCEPT !.sent = TRUE])]

mark_as_sent(st, email_id, fails) ==
    IF fails THEN [ret |-> FALSE, store |-> st]
    ELSE [ret |-> TRUE, store |-> SetSent(st, email_id)]

\* a plausible slip: the UPDATE flips the flag (SET archived = NOT archived)
mark_as_archived_toggles(st, email_id, fails) ==
    IF fails THEN [ret |-> FALSE, store |-> st]
    ELSE [ret |-> TRUE,
          store |-> IF email_id \in DOMAIN st
                    THEN [st EXCEPT ![email_id].archived = ~@] ELSE st]

mark_as_archived(st, email_id, fails) ==
    IF fails THEN [ret |-> FALSE, store |-> st]
    ELSE [ret |-> TRUE, store |-> SetFlag(st, email_id, "archived")]

\* a plausible slip: the UPDATE has no WHERE clause
mark_as_deleted_unscoped(st, email_id, fails) ==
    IF fails THEN [ret |-> FALSE, store |-> st]
    ELSE [ret |-> TRUE, store |-> [k \in DOMAIN st |-> [st[k] EXCEPT !.deleted = TRUE]]]

mark_as_deleted(st, email_id, fails) ==
    IF fails THEN [ret |-> FALSE, store |-> st]
    ELSE [ret |-> TRUE, store |-> SetFlag(st, email_id, "deleted")]

EmptyStore == [k \in {} |-> 0]
NoSave == [state |-> "none"]

----------------------------------------------------------------------------
(* The unread messages of the mailbox                                      *)

Mailbox ==
    [email_id \in Ids |->
        IF email_id = "m1"
        THEN [id |-> "m1",
              sender |-> S_name \o <<"j","o","h","n">> \o S_at_host,
              subject |-> <<"P","r","o","j","e","c","t"," ","d","e","a","d","l","i","n","e">>,
              snippet |-> <<"We need to finalize the report">>]
        ELSE [id |-> email_id,
              sender |-> P_no_reply \o S_at_host,
              subject |-> <<"W","e","e","k","l","y"," ","U","p","d","a","t","e","s">>,
              snippet |-> <<"Check out this week's highlights">>]]

Email(email_id) == Mailbox[email_id]

----------------------------------------------------------------------------
(* FastEmailScanner (src/fast_scan.py) behind the /scan route of app.py.   *)
(* The route holds no in-progress flag and the development server handles  *)
(* each request on its own thread, so scans of two request threads may     *)
(* overlap on the one shared scanner and store.                            *)

Threads == {"t1", "t2"}

\* scan_parallel invocations in one behaviour
MaxScans == 2

max_workers == 10

NoResult == [none |-> TRUE]
NoTask == [pc |-> "none", ai_result |-> NoResult, saved |-> "-", draft |-> "-",
           status |-> "-", collected |-> FALSE]
ZeroResults == [total |-> 0, processed |-> 0, cached |-> 0, errors |-> 0]
IdleScan == [pc |-> "idle", emails |-> {}, results |-> ZeroResults]

\* process_single_email returned `status`
Returned(t, status) ==
    [pc |-> "done", ai_result |-> NoResult, saved |-> t.saved, draft |-> t.draft,
     status |-> status, collected |-> FALSE]

\* a plausible slip: the error branch of the tally is missing
tally_without_errors(results, status) ==
    IF status = "processed" THEN [results EXCEPT !.processed = @ + 1]
    ELSE IF status = "cached" THEN [results EXCEPT !.cached = @ + 1]
    ELSE results

\* the if/elif chain of scan_parallel over one future's result
tally(results, status) ==
    IF status = "processed" THEN [results EXCEPT !.processed = @ + 1]
    ELSE IF status = "cached" THEN [results EXCEPT !.cached = @ + 1]
    ELSE IF status = "error" THEN [results EXCEPT !.errors = @ + 1]
    ELSE results

InFlight(th) == {i \in Ids : task[th][i].pc \in {"analyze", "save", "draft"}}

ScanInit ==
    /\ store = EmptyStore
    /\ creates = [i \in Ids |-> 0]
    /\ scan = [th \in Threads |-> IdleScan]
    /\ task = [th \in Threads |-> [i \in Ids |-> NoTask]]
    /\ started = 0

\* a plausible slip: no early return, an empty batch goes through the
\* pool like any other
ScanStartNoEmptyCheck(th) ==
    /\ scan[th].pc \in {"idle", "done"}
    /\ started < MaxScans
    /\ started' = started + 1
    /\ \E emails \in SUBSET Ids :
         /\ scan' = [scan EXCEPT ![th] =
                       [pc |-> "running", emails |-> emails,
                        results |-> [ZeroResults EXCEPT !.total = Cardinality(emails)]]]
         /\ task' = [task EXCEPT ![th] =
                       [i \in Ids |-> IF i \in emails
                                      THEN [NoTask EXCEPT !.pc = "queued"]
                                      ELSE NoTask]]
    /\ UNCHANGED <<store, creates>>
    /\ UNCHANGED <<lastSave, sideVars, flightVars, call, appVars>>

\* scan_parallel, up to the submission of one task per fetched message;
\* an empty batch returns the zero report at once
ScanStart(th) ==
    /\ scan[th].pc \in {"idle", "done"}
    /\ started < MaxScans
    /\ started' = started + 1
    /\ \E emails \in SUBSET Ids :
         IF emails = {}
         THEN /\ scan' = [scan EXCEPT ![th] =
                            [pc |-> "done", emails |-> {}, results |-> ZeroResults]]
              /\ task' = [task EXCEPT ![th] = [i \in Ids |-> NoTask]]
         ELSE /\ scan' = [scan EXCEPT ![th] =
                            [pc |-> "running", emails |-> emails,
                             results |-> [ZeroResults EXCEPT !.total = Cardinality(emails)]]]
              /\ task' = [task EXCEPT ![th] =
                            [i \in Ids |-> IF i \in emails
                                           THEN [NoTask EXCEPT !.pc = "queued"]
                                           ELSE NoTask]]
    /\ UNCHANGED <<store, creates>>
    /\ UNCHANGED <<lastSave, sideVars, flightVars, call, appVars>>

\* process_single_email: the cache lookup
TaskRead(th, i) ==
    /\ task[th][i].pc = "queued"
    /\ Cardinality(InFlight(th)) < max_workers
    /\ \E read_fails \in BOOLEAN :
         LET existing == get_email_analysis(store, i, read_fails)
         IN  IF existing.found
             THEN task' = [task EXCEPT ![th][i] = Returned(@, "cached")]
             ELSE task' = [task EXCEPT ![th][i].pc = "analyze"]
    /\ UNCHANGED <<store, creates, scan, started>>
    /\ UNCHANGED <<lastSave, sideVars, flightVars, call, appVars>>

\* analyze_email as process_single_email calls it, on each message of the
\* mailbox and each outcome of the client
ScanClassified ==
    [i \in Ids |-> [client \in ScanClientOutcomes |->
        LET e == Email(i)
        IN  analyze_email(e.sender, e.subject, Get(e, "body", Get(e, "snippet", <<>>)), client)]]

\* a plausible slip: no except branch, so an exception leaves the task and
\* its future never yields a result dict
TaskAnalyzeUncaught(th, i) ==
    /\ task[th][i].pc = "analyze"
    /\ \/ \E client \in ScanClientOutcomes :
            task' = [task EXCEPT ![th][i].pc = "save",
                                 ![th][i].ai_result = ScanClassified[i][client].result]
       \/ task' = [task EXCEPT ![th][i].pc = "raised"]
    /\ UNCHANGED <<store, creates, scan, started>>
    /\ UNCHANGED <<lastSave, sideVars, flightVars, call, appVars>>

\* process_single_email: the call of analyze_email.  An exception that
\* leaves the call (the rate_limit wrapper sits outside analyze_email's own
\* try) is caught by process_single_email and becomes status error.
TaskAnalyze(th, i) ==
    /\ task[th][i].pc = "analyze"
    /\ \/ \E client \in ScanClientOutcomes :
            task' = [task EXCEPT ![th][i].pc = "save",
                                 ![th][i].ai_result = ScanClassified[i][client].result]
       \/ task' = [task EXCEPT ![th][i] = Returned(@, "error")]
    /\ UNCHANGED <<store, creates, scan, started>>
    /\ UNCHANGED <<lastSave, sideVars, flightVars, call, appVars>>

\* process_single_email: save_email_analysis, whose return value is not
\* looked at, then the decision to draft
TaskSave(th, i) ==
    /\ task[th][i].pc = "save"
    /\ \E outcomes \in ScanOutcomeSeqs :
         LET ai_result == task[th][i].ai_result
             r == save_email_analysis(store, i, Email(i), ai_result, outcomes)
             saved == [task[th][i] EXCEPT !.saved = IF r.ret = "True" THEN "ok" ELSE "failed"]
         IN  /\ r.ret # "raise"
             /\ store' = r.store
             /\ creates' = IF r.ret = "True" THEN [creates EXCEPT ![i] = @ + 1] ELSE creates
             /\ IF Get(ai_result, "needs_reply", FALSE) /\ Len(Get(ai_result, "reply", <<>>)) > 0
                THEN task' = [task EXCEPT ![th][i] = [saved EXCEPT !.pc = "draft"]]
                ELSE task' = [task EXCEPT ![th][i] = Returned(saved, "processed")]
    /\ UNCHANGED <<scan, started>>
    /\ UNCHANGED <<lastSave, sideVars, flightVars, call, appVars>>

\* process_single_email: create_draft_reply, which catches every exception
\* and reports failure by its return value; the value is not looked at, so
\* the task goes on the same way whether the draft was created or not
TaskDraft(th, i) ==
    /\ task[th][i].pc = "draft"
    /\ \E created \in BOOLEAN :
         task' = [task EXCEPT ![th][i] =
                    Returned([@ EXCEPT !.draft = IF created THEN "created" ELSE "failed"],
                             "processed")]
    /\ UNCHANGED <<store, creates, scan, started>>
    /\ UNCHANGED <<lastSave, sideVars, flightVars, call, appVars>>

\* scan_parallel: as_completed hands over one finished future
TaskCollect(th, i) ==
    /\ scan[th].pc = "running"
    /\ task[th][i].pc = "done"
    /\ ~task[th][i].collected
    /\ scan' = [scan EXCEPT ![th].results = tally(@, task[th][i].status)]
    /\ task' = [task EXCEPT ![th][i].collected = TRUE]
    /\ UNCHANGED <<store, creates, started>>
    /\ UNCHANGED <<lastSave, sideVars, flightVars, call, appVars>>

\* a plausible slip: the report is returned once the first future has been
\* handed over, without waiting for the rest of the pool
ScanReturnFirstCompleted(th) ==
    /\ scan[th].pc = "running"
    /\ \E i \in scan[th].emails : task[th][i].collected
    /\ scan' = [scan EXCEPT ![th].pc = "done"]
    /\ UNCHANGED <<store, creates, task, started>>
    /\ UNCHANGED <<lastSave, sideVars, flightVars, call, appVars>>

\* scan_parallel: every future has been handed over; the pool is shut down
\* and the report returned
ScanReturn(th) ==
    /\ scan[th].pc = "running"
    /\ \A i \in scan[th].emails : task[th][i].collected
    /\ scan' = [scan EXCEPT ![th].pc = "done"]
    /\ UNCHANGED <<store, creates, task, started>>
    /\ UNCHANGED <<lastSave, sideVars, flightVars, call, appVars>>

----------------------------------------------------------------------------
(* save_email_analysis on its own, against every sequence of attempt       *)
(* outcomes.                                                               *)

StoreResult ==
    [i \in Ids |->
        analyze_email(Email(i).sender, Email(i).subject, Email(i).snippet,
                      [kind |-> "json", data |-> VerdictImportant]).result]

StoreSave(i) ==
    /\ \E outcomes \in OutcomeSeqs :
         LET r == save_email_analysis(store, i, Email(i), StoreResult[i], outcomes)
         IN  /\ store' = r.store
             /\ lastSave' = [state |-> "returned", outcomes |-> outcomes, ret |-> r.ret,
                             attempts |-> r.attempts, slept |-> r.slept]
    /\ UNCHANGED <<creates, scan, task, started, flightVars, call, appVars, sideVars>>

----------------------------------------------------------------------------
(* scan_inbox of enterprise_app.py: an async handler on the one event loop *)
(* thread.  Between two awaits the handler runs without interruption; a    *)
(* blocking future.result() keeps the event loop thread, so no other       *)
(* handler runs until it returns.  The pool's workers are threads of their *)
(* own.  A worker is abstracted to what process_single_email hands back:   *)
(* a result, None (its own except branch), or an exception that leaves it  *)
(* (email['id'] is read before its try).                                   *)

Reqs == {"r1", "r2"}

\* messages one fetch may return
MaxBatch == 2

\* scan requests in one behaviour
MaxRequests == 3

IdleReq ==
    [pc |-> "idle", workers |-> <<>>, next |-> 0, processed |-> 0, status |-> "-",
     saw_flag |-> FALSE, fetched |-> FALSE]

FlightInit ==
    /\ processing = FALSE
    /\ running = "none"
    /\ req = [r \in Reqs |-> IdleReq]

\* a plausible slip: the handler does not look at the flag
ScanEnterUnchecked(r) ==
    /\ running = "none"
    /\ req[r].pc \in {"idle", "done"}
    /\ started < MaxRequests
    /\ started' = started + 1
    /\ processing' = TRUE
    /\ req' = [req EXCEPT ![r] = [IdleReq EXCEPT !.pc = "started", !.saw_flag = processing]]
    /\ UNCHANGED <<running, store, creates, scan, task, lastSave, sideVars, call, appVars>>

\* lines 301-315: the flag is tested and set with no await in between,
\* then the handler awaits the scan_started broadcast
ScanEnter(r) ==
    /\ running = "none"
    /\ req[r].pc \in {"idle", "done"}
    /\ started < MaxRequests
    /\ started' = started + 1
    /\ IF processing
       THEN /\ req' = [req EXCEPT ![r] = [IdleReq EXCEPT !.pc = "done",
                                           !.status = "already_processing",
                                           !.saw_flag = processing]]
            /\ UNCHANGED processing
       ELSE /\ processing' = TRUE
            /\ req' = [req EXCEPT ![r] = [IdleReq EXCEPT !.pc = "started",
                                           !.saw_flag = processing]]
    /\ UNCHANGED <<running, store, creates, scan, task, lastSave, sideVars, call, appVars>>

\* lines 320-342: fetch; an empty batch releases the flag and answers,
\* otherwise the handler awaits the first progress broadcast
ScanFetch(r) ==
    /\ running = "none"
    /\ req[r].pc = "started"
    /\ \E n \in 0..MaxBatch :
         IF n = 0
         THEN /\ processing' = FALSE
              /\ req' = [req EXCEPT ![r].pc = "done", ![r].status = "success",
                                    ![r].fetched = TRUE]
         ELSE /\ UNCHANGED processing
              /\ req' = [req EXCEPT ![r].pc = "dispatch", ![r].fetched = TRUE,
                                    ![r].workers = [k \in 1..n |-> "queued"]]
    /\ UNCHANGED <<running, scanVars, lastSave, sideVars, call, appVars>>

\* lines 344-359: the executor is created, one task per message submitted,
\* and the handler blocks in the first future.result()
ScanDispatch(r) ==
    /\ running = "none"
    /\ req[r].pc = "dispatch"
    /\ req' = [req EXCEPT ![r].pc = "collect", ![r].next = 1,
                          ![r].workers = [k \in DOMAIN @ |-> "running"]]
    /\ running' = r
    /\ UNCHANGED <<processing, scanVars, lastSave, sideVars, call, appVars>>

\* a pool thread finishes process_single_email
WorkerFinish(r, k) ==
    /\ k \in DOMAIN req[r].workers
    /\ req[r].workers[k] = "running"
    /\ \E res \in {"result", "none", "raised"} :
         req' = [req EXCEPT ![r].workers[k] = res]
    /\ UNCHANGED <<processing, running, scanVars, lastSave, sideVars, call, appVars>>

\* lines 358-367: future.result() returns or raises; after a result the
\* handler awaits the progress broadcast
ScanCollect(r) ==
    /\ running = r
    /\ req[r].pc = "collect"
    /\ req[r].workers[req[r].next] \notin {"queued", "running"}
    /\ IF req[r].workers[req[r].next] = "raised"
       THEN /\ req' = [req EXCEPT ![r].pc = "unwinding"]
            /\ UNCHANGED running
       ELSE /\ req' = [req EXCEPT ![r].pc = "progress",
                                  ![r].processed =
                                      IF req[r].workers[req[r].next] = "result"
                                      THEN @ + 1 ELSE @]
            /\ running' = "none"
    /\ UNCHANGED <<processing, scanVars, lastSave, sideVars, call, appVars>>

\* back from the progress broadcast: the next future.result(), or, after
\* the last one, lines 369-382: the pool is shut down, the flag released
\* and the answer given
ScanResume(r) ==
    /\ running = "none"
    /\ req[r].pc = "progress"
    /\ IF req[r].next < Len(req[r].workers)
       THEN /\ req' = [req EXCEPT ![r].pc = "collect", ![r].next = @ + 1]
            /\ running' = r
            /\ UNCHANGED processing
       ELSE /\ req' = [req EXCEPT ![r].pc = "done", ![r].status = "success"]
            /\ processing' = FALSE
            /\ UNCHANGED running
    /\ UNCHANGED <<scanVars, lastSave, sideVars, call, appVars>>

\* a plausible slip: the except branch does not release the flag
ScanFailKeepsFlag(r) ==
    /\ running = r
    /\ req[r].pc = "unwinding"
    /\ \A k \in DOMAIN req[r].workers : req[r].workers[k] # "running"
    /\ req' = [req EXCEPT ![r].pc = "done", ![r].status = "failed"]
    /\ running' = "none"
    /\ UNCHANGED <<processing, scanVars, lastSave, sideVars, call, appVars>>

\* lines 384-393: the exception leaves the with block, whose exit waits for
\* every worker, and reaches the except branch
ScanFail(r) ==
    /\ running = r
    /\ req[r].pc = "unwinding"
    /\ \A k \in DOMAIN req[r].workers : req[r].workers[k] # "running"
    /\ processing' = FALSE
    /\ req' = [req EXCEPT ![r].pc = "done", ![r].status = "failed"]
    /\ running' = "none"
    /\ UNCHANGED <<scanVars, lastSave, sideVars, call, appVars>>

PoolActive(r) == req[r].pc \in {"collect", "progress", "unwinding"}

----------------------------------------------------------------------------
(* Priority scorer (src/ultimate_app.py, src/working_app.py)               *)

Variants == {"ultimate_app", "working_app"}

\* urgent_keywords of ultimate_app.calculate_priority
urgent_keywords ==
    {<<"u","r","g","e","n","t">>, <<"a","s","a","p">>,
     <<"i","m","m","e","d","i","a","t","e">>, <<"d","e","a","d","l","i","n","e">>,
     <<"c","r","i","t","i","c","a","l">>, <<"o","v","e","r","d","u","e">>,
     <<"s","e","c","u","r","i","t","y">>, <<"a","l","e","r","t">>,
     <<"v","e","r","i","f","y">>, <<"p","a","s","s","w","o","r","d">>,
     <<"l","o","g","i","n">>}

\* urgent_keywords of working_app.calculate_priority
working_app_urgent_keywords ==
    {<<"u","r","g","e","n","t">>, <<"a","s","a","p">>,
     <<"i","m","m","e","d","i","a","t","e">>, <<"d","e","a","d","l","i","n","e">>,
     <<"i","m","p","o","r","t","a","n","t">>, <<"c","r","i","t","i","c","a","l">>}

\* ultimate_app: if any(k in subject_lower for k in urgent_keywords): score += 30
urgency_bonus(subject) ==
    LET subject_lower == lower(subject)
    IN  IF \E k \in urgent_keywords : Contains(subject_lower, k) THEN 30 ELSE 0

\* ultimate_app: the value of `score` before the bucketing
priority_score(email_data, ai_result) ==
    LET cat == Get(ai_result, "category", "")
        ai_prio == Get(ai_result, "priority", "Low")
    IN  urgency_bonus(email_data.subject)
        + (IF cat = "Important" THEN 40
           ELSE IF cat = "Personal" THEN 20
           ELSE IF cat = "Spam" THEN 0 - 50 ELSE 0)
        + (IF ai_prio = "High" THEN 30 ELSE IF ai_prio = "Medium" THEN 15 ELSE 0)

\* a plausible slip: the HIGH floor is exclusive
calculate_priority_exclusive_floor(email_data, ai_result) ==
    LET score == priority_score(email_data, ai_result)
    IN  IF score > 50 THEN "HIGH" ELSE IF score >= 25 THEN "MEDIUM" ELSE "LOW"

\* a plausible slip: messages seen before weigh in through the analytics
calculate_priority_with_history(email_data, ai_result) ==
    LET score == priority_score(email_data, ai_result) + 10 * analytics.total_processed
    IN  IF score >= 50 THEN "HIGH" ELSE IF score >= 25 THEN "MEDIUM" ELSE "LOW"

\* a plausible slip: the Spam branch of the category bonus is missing, as
\* in working_app
calculate_priority_without_penalty(email_data, ai_result) ==
    LET score == priority_score(email_data, ai_result)
                 + (IF Get(ai_result, "category", "") = "Spam" THEN 50 ELSE 0)
    IN  IF score >= 50 THEN "HIGH" ELSE IF score >= 25 THEN "MEDIUM" ELSE "LOW"

\* ultimate_app.calculate_priority
calculate_priority(email_data, ai_result) ==
    LET score == priority_score(email_data, ai_result)
    IN  IF score >= 50 THEN "HIGH" ELSE IF score >= 25 THEN "MEDIUM" ELSE "LOW"

\* working_app: for word in urgent_keywords: if word in subject_lower: += 15
working_app_urgency_bonus(subject) ==
    LET subject_lower == lower(subject)
    IN  15 * Cardinality({word \in working_app_urgent_keywords : Contains(subject_lower, word)})

\* working_app: the value of `priority_score` before the bucketing
working_app_priority_score(email_data, ai_result) ==
    LET category == Get(ai_result, "category", "")
        hint == Get(ai_result, "priority", "None")
    IN  working_app_urgency_bonus(email_data.subject)
        + (IF category = "Important" THEN 40 ELSE IF category = "Personal" THEN 20 ELSE 0)
        + (IF hint = "High" THEN 30 ELSE IF hint = "Medium" THEN 15 ELSE 0)

\* working_app.calculate_priority
working_app_calculate_priority(email_data, ai_result) ==
    LET score == working_app_priority_score(email_data, ai_result)
    IN  IF score >= 50 THEN "HIGH" ELSE IF score >= 20 THEN "MEDIUM" ELSE "LOW"

\* the scorer of the module that runs
Scorer(v, email_data, ai_result) ==
    IF v = "ultimate_app"
    THEN [bucket |-> calculate_priority(email_data, ai_result),
          score |-> priority_score(email_data, ai_result),
          urgency |-> urgency_bonus(email_data.subject)]
    ELSE [bucket |-> working_app_calculate_priority(email_data, ai_result),
          score |-> working_app_priority_score(email_data, ai_result),
          urgency |-> working_app_urgency_bonus(email_data.subject)]

----------------------------------------------------------------------------
(* Auto-pilot rules (src/ultimate_app.py, src/working_app.py) and the      *)
(* Gmail operations they request (src/gmail_service.py)                    *)

\* AUTO_PILOT_SETTINGS as the module defines it
DefaultSettings ==
    [enabled |-> FALSE, archive_newsletters |-> TRUE, delete_spam |-> TRUE,
     archive_low_priority |-> FALSE]

\* What the Gmail API does on one request: it succeeds, raises HttpError,
\* or raises something else (no service, transport error)
Faults == {"ok", "http_error", "fault"}

\* number of Gmail request outcomes the environment fixes for one call
MaxGatewayCalls == 2

FaultSeqs == [1..MaxGatewayCalls -> Faults]

\* the outcome of the k-th Gmail request of one call; requests beyond the
\* fixed outcomes succeed
FaultAt(faults, k) == IF k \in DOMAIN faults THEN faults[k] ELSE "ok"

\* GmailService.archive_email: True, False on HttpError, anything else escapes
archive_email(message_id, fault) ==
    [op |-> "archive", id |-> message_id,
     result |-> IF fault = "ok" THEN "True" ELSE IF fault = "http_error" THEN "False" ELSE "raised"]

\* GmailService.delete_email: True, False on every exception
delete_email(message_id, fault) ==
    [op |-> "delete", id |-> message_id,
     result |-> IF fault = "ok" THEN "True" ELSE "False"]

\* GmailService.create_draft_reply: True, False on every exception
create_draft_reply(message_id, fault) ==
    [op |-> "draft", id |-> message_id,
     result |-> IF fault = "ok" THEN "True" ELSE "False"]

\* one guarded gateway request inside the rules' try block: the label is
\* assigned after the request returned
Request(sofar, operation, label) ==
    IF operation.result = "raised"
    THEN [action_taken |-> sofar.action_taken, ops |-> Append(sofar.ops, operation), raised |-> TRUE]
    ELSE [action_taken |-> label, ops |-> Append(sofar.ops, operation), raised |-> FALSE]

NoAction == [action_taken |-> None, ops |-> <<>>, raised |-> FALSE]

\* a plausible slip: the enabled switch is not looked at
apply_autopilot_rules_always_on(email_id, category, priority, st, faults) ==
    IF st.archive_newsletters /\ category = "Newsletter"
    THEN Request(NoAction, archive_email(email_id, FaultAt(faults, 1)), "Archived (Newsletter)")
    ELSE IF st.delete_spam /\ category = "Spam"
    THEN Request(NoAction, delete_email(email_id, FaultAt(faults, 1)), "Deleted (Spam)")
    ELSE IF st.archive_low_priority /\ priority = "LOW"
            /\ category \notin {"Important", "Personal"}
    THEN Request(NoAction, archive_email(email_id, FaultAt(faults, 1)), "Archived (Low Prio)")
    ELSE NoAction

\* a plausible slip: the label is assigned before the request is made
apply_autopilot_rules_label_first(email_id, category, priority, st, faults) ==
    IF ~st.enabled THEN NoAction
    ELSE IF st.archive_newsletters /\ category = "Newsletter"
    THEN [Request(NoAction, archive_email(email_id, FaultAt(faults, 1)), "Archived (Newsletter)")
            EXCEPT !.action_taken = "Archived (Newsletter)"]
    ELSE IF st.delete_spam /\ category = "Spam"
    THEN Request(NoAction, delete_email(email_id, FaultAt(faults, 1)), "Deleted (Spam)")
    ELSE IF st.archive_low_priority /\ priority = "LOW"
            /\ category \notin {"Important", "Personal"}
    THEN [Request(NoAction, archive_email(email_id, FaultAt(faults, 1)), "Archived (Low Prio)")
            EXCEPT !.action_taken = "Archived (Low Prio)"]
    ELSE NoAction

\* ultimate_app.apply_autopilot_rules under settings `st`: an if / elif
\* chain inside one try; `faults` are the outcomes of the Gmail requests
apply_autopilot_rules(email_id, category, priority, st, faults) ==
    IF ~st.enabled THEN NoAction
    ELSE IF st.archive_newsletters /\ category = "Newsletter"
    THEN Request(NoAction, archive_email(email_id, FaultAt(faults, 1)), "Archived (Newsletter)")
    ELSE IF st.delete_spam /\ category = "Spam"
    THEN Request(NoAction, delete_email(email_id, FaultAt(faults, 1)), "Deleted (Spam)")
    ELSE IF st.archive_low_priority /\ priority = "LOW"
            /\ category \notin {"Important", "Personal"}
    THEN Request(NoAction, archive_email(email_id, FaultAt(faults, 1)), "Archived (Low Prio)")
    ELSE NoAction

\* working_app.apply_autopilot under settings `st`: three independent ifs
\* inside one try; an exception skips the ifs that follow
apply_autopilot(email_id, category, priority, st, faults) ==
    IF ~st.enabled THEN NoAction
    ELSE
      LET s1 == IF st.archive_newsletters /\ category = "Newsletter"
                THEN Request(NoAction, archive_email(email_id, FaultAt(faults, 1)),
                             "Auto-archived (Newsletter)")
                ELSE NoAction
          s2 == IF ~s1.raised /\ st.delete_spam /\ category = "Spam"
                THEN Request(s1, delete_email(email_id, FaultAt(faults, Len(s1.ops) + 1)),
                             "Auto-deleted (Spam)")
                ELSE s1
          s3 == IF ~s2.raised /\ st.archive_low_priority /\ priority = "LOW"
                   /\ category \notin {"Important", "Personal"}
                THEN Request(s2, archive_email(email_id, FaultAt(faults, Len(s2.ops) + 1)),
                             "Auto-archived (Low Priority)")
                ELSE s2
      IN  s3

\* the rules of the module that runs
Autopilot(v, email_id, category, priority, st, faults) ==
    IF v = "ultimate_app"
    THEN apply_autopilot_rules(email_id, category, priority, st, faults)
    ELSE apply_autopilot(email_id, category, priority, st, faults)

----------------------------------------------------------------------------
(* process_email (src/ultimate_app.py) and process_email_with_analytics    *)
(* (src/working_app.py): the pipeline for one fetched message              *)

NoneResult == [kind |-> "None"]

\* the truth value Python gives ai_res.get('needs_reply')
Truthy(ai_result, key) == Get(ai_result, key, FALSE) = TRUE

\* the entry written to EMAIL_CACHE; sender and subject are those of the
\* message and the timestamp is left out
CacheData(ai_result, priority, auto_action) ==
    [category |-> Get(ai_result, "category", "Unknown"),
     reply |-> Get(ai_result, "reply", NoReplyNeeded),
     priority |-> priority,
     autopilot_action |-> auto_action]

\* the dict handed back to the scan route
Processed(data, is_cached) ==
    [kind |-> "data", category |-> data.category, reply |-> data.reply,
     priority |-> data.priority, autopilot_action |-> data.autopilot_action,
     cached |-> is_cached]

\* the outcomes the scan tasks of the apps are run against
TriageClientOutcomes ==
    ScanClientOutcomes \cup {[kind |-> "text", lines |-> TextLabelled],
                             [kind |-> "json", data |-> VerdictSpamReply]}

\* analyze_email on each message of the mailbox, per client outcome
Classified ==
    [email_id \in Ids |-> [client \in TriageClientOutcomes |->
        LET email == Email(email_id)
        IN  analyze_email(email.sender, email.subject, Get(email, "snippet", <<>>),
                          client).result]]

\* the scorer of each module on each message and verdict
Prioritised ==
    [v \in Variants |-> [email_id \in Ids |-> [client \in TriageClientOutcomes |->
        Scorer(v, Email(email_id), Classified[email_id][client]).bucket]]]

\* what a call leaves behind when it returns before the try block
Untouched(result, ch, an) ==
    [result |-> result, cache |-> ch, analytics |-> an, ops |-> <<>>,
     steps |-> <<>>, auto |-> NoAction, verdict |-> NoResult]

\* a plausible slip: the draft is requested whenever the verdict needs a
\* reply, whether or not the rules acted
process_email_drafts_regardless(email_id, st, ch, sn, an, client, faults) ==
    IF email_id \in sn THEN Untouched(NoneResult, ch, an)
    ELSE IF email_id \in DOMAIN ch THEN Untouched(Processed(ch[email_id], TRUE), ch, an)
    ELSE
      \* the verdict and the priority are computed once and handed on
      LET after(ai_res, priority) ==
            LET auto == apply_autopilot_rules(email_id, Get(ai_res, "category", None),
                                          priority, st, faults)
                drafts == Truthy(ai_res, "needs_reply")
                draft == create_draft_reply(email_id,
                                            FaultAt(faults, Len(auto.ops) + 1))
                data == CacheData(ai_res, priority, auto.action_taken)
            IN  [result |-> Processed(data, FALSE),
                 cache |-> Upsert(ch, email_id, data),
                 analytics |-> [an EXCEPT !.total_processed = @ + 1],
                 ops |-> IF drafts THEN Append(auto.ops, draft) ELSE auto.ops,
                 steps |-> <<"classify", "priority", "automation">>
                           \o (IF drafts THEN <<"draft">> ELSE <<>>) \o <<"persist">>,
                 auto |-> auto,
                 verdict |-> ai_res]
      IN  after(Classified[email_id][client], Prioritised["ultimate_app"][email_id][client])

\* ultimate_app.process_email on message `email_id` with the module state
\* (settings, cache, snoozed ids, analytics) and the outcomes of the
\* client and of the Gmail requests
process_email(email_id, st, ch, sn, an, client, faults) ==
    IF email_id \in sn THEN Untouched(NoneResult, ch, an)
    ELSE IF email_id \in DOMAIN ch THEN Untouched(Processed(ch[email_id], TRUE), ch, an)
    ELSE
      \* the verdict and the priority are computed once and handed on
      LET after(ai_res, priority) ==
            LET auto == apply_autopilot_rules(email_id, Get(ai_res, "category", None),
                                          priority, st, faults)
                drafts == Truthy(ai_res, "needs_reply") /\ auto.action_taken = None
                draft == create_draft_reply(email_id,
                                            FaultAt(faults, Len(auto.ops) + 1))
                data == CacheData(ai_res, priority, auto.action_taken)
            IN  [result |-> Processed(data, FALSE),
                 cache |-> Upsert(ch, email_id, data),
                 analytics |-> [an EXCEPT !.total_processed = @ + 1],
                 ops |-> IF drafts THEN Append(auto.ops, draft) ELSE auto.ops,
                 steps |-> <<"classify", "priority", "automation">>
                           \o (IF drafts THEN <<"draft">> ELSE <<>>) \o <<"persist">>,
                 auto |-> auto,
                 verdict |-> ai_res]
      IN  after(Classified[email_id][client], Prioritised["ultimate_app"][email_id][client])

\* working_app.process_email_with_analytics: the cache entry is written
\* before the draft is requested
process_email_with_analytics(email_id, st, ch, sn, an, client, faults) ==
    IF email_id \in sn THEN Untouched(NoneResult, ch, an)
    ELSE IF email_id \in DOMAIN ch THEN Untouched(Processed(ch[email_id], TRUE), ch, an)
    ELSE
      \* the verdict and the priority are computed once and handed on
      LET after(ai_result, priority) ==
            LET auto == apply_autopilot(email_id, Get(ai_result, "category", None),
                                    priority, st, faults)
                drafts == Truthy(ai_result, "needs_reply") /\ auto.action_taken = None
                draft == create_draft_reply(email_id,
                                            FaultAt(faults, Len(auto.ops) + 1))
                data == CacheData(ai_result, priority, auto.action_taken)
            IN  [result |-> Processed(data, FALSE),
                 cache |-> Upsert(ch, email_id, data),
                 analytics |-> [an EXCEPT !.total_processed = @ + 1],
                 ops |-> IF drafts THEN Append(auto.ops, draft) ELSE auto.ops,
                 steps |-> <<"classify", "priority", "automation", "persist">>
                           \o (IF drafts THEN <<"draft">> ELSE <<>>),
                 auto |-> auto,
                 verdict |-> ai_result]
      IN  after(Classified[email_id][client], Prioritised["working_app"][email_id][client])

IdleCall == [state |-> "none", op |-> "none"]

\* the module state after import, before any request
IdleApp ==
    /\ variant = "ultimate_app"
    /\ settings = DefaultSettings
    /\ cache = EmptyStore
    /\ snoozed = {}
    /\ analytics = [total_processed |-> 0]
    /\ gateway = <<>>
    /\ ret = IdleCall
    /\ probe = IdleCall

\* One task of the /scan route: process_email on a fetched message
ProcessEmail(email_id, client, faults) ==
    /\ \E r \in {IF variant = "ultimate_app"
                THEN process_email(email_id, settings, cache, snoozed, analytics, client, faults)
                ELSE process_email_with_analytics(email_id, settings, cache, snoozed,
                                                  analytics, client, faults)} :
           /\ cache' = r.cache
           /\ analytics' = r.analytics
           /\ gateway' = gateway \o r.ops
           /\ ret' = [state |-> "returned", op |-> "process_email", id |-> email_id,
                      result |-> r.result, verdict |-> r.verdict, auto |-> r.auto,
                      steps |-> r.steps]
    /\ UNCHANGED <<variant, settings, snoozed, probe>>
    /\ UNCHANGED <<scanVars, lastSave, sideVars, flightVars, call>>

\* The /toggle_autopilot route
toggle_autopilot ==
    /\ settings' = [settings EXCEPT !.enabled = ~@]
    /\ UNCHANGED <<variant, cache, snoozed, analytics, gateway, ret, probe>>
    /\ UNCHANGED <<scanVars, lastSave, sideVars, flightVars, call>>

----------------------------------------------------------------------------
(* The scorer and the rules called on drawn arguments                      *)

\* number of evaluations of the scorer on one input
MaxEvals == 2

ScoreSubjects ==
    {<<"W","e","e","k","l","y"," ","U","p","d","a","t","e","s">>,
     <<"P","r","o","j","e","c","t"," ","d","e","a","d","l","i","n","e">>,
     <<"U","R","G","E","N","T",":"," ","d","e","a","d","l","i","n","e"," ","A","S","A","P">>,
     <<"S","e","c","u","r","i","t","y"," ","a","l","e","r","t">>,
     <<"I","m","p","o","r","t","a","n","t"," ","n","o","t","i","c","e">>}

\* the verdicts handed to the scorer: each category, one the prompt does
\* not list, and each hint or none
ScoreVerdicts ==
    {[category |-> c, priority |-> h] :
        c \in {"Important", "Personal", "Newsletter", "Spam", "Urgent"},
        h \in {"High", "Medium", "Low"}}
    \cup {[category |-> c] : c \in {"Important", "Personal", "Newsletter", "Spam", "Urgent"}}

ScoreInit ==
    /\ variant \in Variants
    /\ settings = DefaultSettings
    /\ cache = EmptyStore
    /\ snoozed = {}
    /\ analytics = [total_processed |-> 0]
    /\ gateway = <<>>
    /\ ret = IdleCall
    /\ probe \in {[state |-> "pending", op |-> "calculate_priority",
                   subject |-> s, ai_result |-> a, evals |-> <<>>] :
                     s \in ScoreSubjects, a \in ScoreVerdicts}

\* One call of calculate_priority on the drawn subject and verdict, in the
\* module state of the moment
CalculatePriority ==
    /\ probe.op = "calculate_priority"
    /\ Len(probe.evals) < MaxEvals
    /\ LET r == Scorer(variant, [subject |-> probe.subject], probe.ai_result)
       IN  probe' = [probe EXCEPT !.state = "returned",
                        !.evals = Append(@, [bucket |-> r.bucket, score |-> r.score,
                                             urgency |-> r.urgency,
                                             processed |-> analytics.total_processed])]
    /\ UNCHANGED <<variant, settings, cache, snoozed, analytics, gateway, ret>>
    /\ UNCHANGED <<scanVars, lastSave, sideVars, flightVars, call>>

AllOk == [k \in 1..MaxGatewayCalls |-> "ok"]

AllSettings ==
    [enabled : BOOLEAN, archive_newsletters : BOOLEAN, delete_spam : BOOLEAN,
     archive_low_priority : BOOLEAN]

PilotInit ==
    /\ variant \in Variants
    /\ settings \in AllSettings
    /\ cache = EmptyStore
    /\ snoozed = {}
    /\ analytics = [total_processed |-> 0]
    /\ gateway = <<>>
    /\ ret = IdleCall
    /\ probe \in {[state |-> "pending", op |-> "apply_autopilot", id |-> "m1",
                   category |-> c, priority |-> p, faults |-> f] :
                     c \in {"Important", "Personal", "Newsletter", "Spam", "Urgent"},
                     p \in {"HIGH", "MEDIUM", "LOW"}, f \in FaultSeqs}

\* One call of the auto-pilot rules on the drawn message, under the drawn
\* settings and Gmail outcomes
ApplyAutopilot ==
    /\ probe.op = "apply_autopilot"
    /\ probe.state = "pending"
    /\ LET r == Autopilot(variant, probe.id, probe.category, probe.priority,
                          settings, probe.faults)
       IN  /\ probe' = [state |-> "returned", op |-> "apply_autopilot", id |-> probe.id,
                        category |-> probe.category, priority |-> probe.priority,
                        faults |-> probe.faults,
                        action_taken |-> r.action_taken, raised |-> r.raised]
           /\ gateway' = gateway \o r.ops
    /\ UNCHANGED <<variant, settings, cache, snoozed, analytics, ret>>
    /\ UNCHANGED <<scanVars, lastSave, sideVars, flightVars, call>>

----------------------------------------------------------------------------
(* mark_as_sent, mark_as_archived and mark_as_deleted (src/db_manager.py)  *)
(* on a table that save_email_analysis fills.                              *)

\* mark_as_* calls in one behaviour
MaxMarks == 3

NoMark == [n |-> 0, op |-> "none", id |-> "none", ret |-> FALSE, repeat |-> FALSE]

\* save_email_analysis from a scan, with the outcome of each attempt
MarkedSave(i) ==
    /\ \E outcomes \in ScanOutcomeSeqs :
         store' = save_email_analysis(store, i, Email(i), StoreResult[i], outcomes).store
    /\ lastMark' = [n |-> lastMark.n, op |-> "save_email_analysis", id |-> i,
                    ret |-> store' # store, repeat |-> FALSE]
    /\ UNCHANGED <<creates, scan, task, started, lastSave, flightVars, call, appVars>>
    /\ UNCHANGED <<limitVars, poolVars>>

\* the call before this one was the same operation on the same id and
\* returned True
Repeats(op, i) == lastMark.op = op /\ lastMark.id = i /\ lastMark.ret

\* one call of each operation, which succeeds or fails inside
MarkSent(i) ==
    /\ lastMark.n < MaxMarks
    /\ \E fails \in BOOLEAN :
         LET r == mark_as_sent(store, i, fails)
         IN  /\ store' = r.store
             /\ lastMark' = [n |-> lastMark.n + 1, op |-> "mark_as_sent", id |-> i, ret |-> r.ret,
                              repeat |-> Repeats("mark_as_sent", i)]
    /\ UNCHANGED <<creates, scan, task, started, lastSave, flightVars, call, appVars>>
    /\ UNCHANGED <<limitVars, poolVars>>

MarkArchived(i) ==
    /\ lastMark.n < MaxMarks
    /\ \E fails \in BOOLEAN :
         LET r == mark_as_archived(store, i, fails)
         IN  /\ store' = r.store
             /\ lastMark' = [n |-> lastMark.n + 1, op |-> "mark_as_archived", id |-> i, ret |-> r.ret,
                              repeat |-> Repeats("mark_as_archived", i)]
    /\ UNCHANGED <<creates, scan, task, started, lastSave, flightVars, call, appVars>>
    /\ UNCHANGED <<limitVars, poolVars>>

MarkDeleted(i) ==
    /\ lastMark.n < MaxMarks
    /\ \E fails \in BOOLEAN :
         LET r == mark_as_deleted(store, i, fails)
         IN  /\ store' = r.store
             /\ lastMark' = [n |-> lastMark.n + 1, op |-> "mark_as_deleted", id |-> i, ret |-> r.ret,
                              repeat |-> Repeats("mark_as_deleted", i)]
    /\ UNCHANGED <<creates, scan, task, started, lastSave, flightVars, call, appVars>>
    /\ UNCHANGED <<limitVars, poolVars>>

----------------------------------------------------------------------------
(* The routes that send, archive and delete (src/app.py,                   *)
(* src/enterprise_app.py): each asks the gateway and then marks the row.   *)

\* route calls in one behaviour
MaxRouteCalls == 2

\* GmailService.send_email_reply: True, False on every exception
send_email_reply(message_id, fault) ==
    [op |-> "send", id |-> message_id,
     result |-> IF fault = "ok" THEN "True" ELSE "False"]

\* GmailService.mark_as_read: True, False on HttpError, anything else escapes
mark_as_read(message_id, fault) ==
    [op |-> "mark_read", id |-> message_id,
     result |-> IF fault = "ok" THEN "True" ELSE IF fault = "http_error" THEN "False" ELSE "raised"]

\* `if gmail.<request>(...): db.mark_as_...(...)`: the request joins the
\* ones made so far and the row is marked only after a True
Guarded(sofar, request, marked) ==
    [store |-> IF request.result = "True" THEN marked.store ELSE sofar.store,
     ops |-> Append(sofar.ops, request)]

\* app.py send_reply_route: a reply is sent for a row that has one and is
\* not marked sent
send_reply_route(st, message_id, read_fails, fault, mark_fails) ==
    LET email_data == get_email_analysis(st, message_id, read_fails)
    IN  IF ~email_data.found THEN [store |-> st, ops |-> <<>>, status |-> "redirect"]
        ELSE IF email_data.row.clean_reply # <<>> /\ ~email_data.row.sent
        THEN Guarded([store |-> st, ops |-> <<>>],
                     send_email_reply(message_id, fault),
                     mark_as_sent(st, message_id, mark_fails))
             @@ [status |-> "redirect"]
        ELSE [store |-> st, ops |-> <<>>, status |-> "redirect"]

\* a plausible slip: the row is marked whatever the gateway answered
archive_route_unchecked(st, message_id, fault, mark_fails) ==
    LET request == archive_email(message_id, fault)
    IN  IF request.result = "raised"
        THEN [store |-> st, ops |-> <<request>>, status |-> "redirect"]
        ELSE [store |-> mark_as_archived(st, message_id, mark_fails).store,
              ops |-> <<request>>, status |-> "redirect"]

\* app.py archive_route; an exception of the gateway is caught by the route
archive_route(st, message_id, fault, mark_fails) ==
    Guarded([store |-> st, ops |-> <<>>], archive_email(message_id, fault),
            mark_as_archived(st, message_id, mark_fails))
    @@ [status |-> "redirect"]

\* app.py delete_route
delete_route(st, message_id, fault, mark_fails) ==
    Guarded([store |-> st, ops |-> <<>>], delete_email(message_id, fault),
            mark_as_deleted(st, message_id, mark_fails))
    @@ [status |-> "redirect"]

\* enterprise_app.py send_email (POST /api/email/{email_id}/send): the row
\* is read for its reply; its sent flag is not looked at
send_email(st, email_id, read_fails, fault, mark_fails) ==
    LET email == get_email_analysis(st, email_id, read_fails)
    IN  IF ~email.found THEN [store |-> st, ops |-> <<>>, status |-> 404]
        ELSE IF email.row.clean_reply = <<>> \/ email.row.clean_reply = NoReplyNeeded
        THEN [store |-> st, ops |-> <<>>, status |-> 400]
        ELSE LET r == Guarded([store |-> st, ops |-> <<>>],
                              send_email_reply(email_id, fault),
                              mark_as_sent(st, email_id, mark_fails))
             IN  r @@ [status |-> IF r.ops[1].result = "True" THEN 200 ELSE 500]

\* enterprise_app.py archive_email (POST /api/email/{email_id}/archive)
api_archive_email(st, email_id, fault, mark_fails) ==
    LET r == Guarded([store |-> st, ops |-> <<>>], archive_email(email_id, fault),
                     mark_as_archived(st, email_id, mark_fails))
    IN  r @@ [status |-> IF r.ops[1].result = "True" THEN 200 ELSE 500]

\* enterprise_app.py delete_email (POST /api/email/{email_id}/delete)
api_delete_email(st, email_id, fault, mark_fails) ==
    LET r == Guarded([store |-> st, ops |-> <<>>], delete_email(email_id, fault),
                     mark_as_deleted(st, email_id, mark_fails))
    IN  r @@ [status |-> IF r.ops[1].result = "True" THEN 200 ELSE 500]

\* the ids of a set in the order the loops visit them
IdSeq(ids) ==
    (IF "m1" \in ids THEN <<"m1">> ELSE <<>>) \o (IF "m2" \in ids THEN <<"m2">> ELSE <<>>)

\* get_recent_emails(include_deleted=False): the rows with deleted = 0, or
\* nothing when the read raised
get_recent_emails(st, read_fails) ==
    IF read_fails THEN <<>>
    ELSE LET ids == IdSeq({i \in DOMAIN st : ~st[i].deleted})
         IN  [k \in 1..Len(ids) |-> [email_id |-> ids[k], row |-> st[ids[k]]]]

\* AutoPilotRequest: the defaults, and auto_reply switched on with and
\* without the two delete rules
AutoPilotRequests ==
    {[archive_newsletters |-> TRUE, delete_spam |-> TRUE, auto_reply |-> FALSE],
     [archive_newsletters |-> TRUE, delete_spam |-> TRUE, auto_reply |-> TRUE],
     [archive_newsletters |-> FALSE, delete_spam |-> FALSE, auto_reply |-> TRUE]}

\* the outcomes of the gateway requests of one loop, one for each row
RouteFaultSeqs == [1..Cardinality(Ids) -> Faults]

\* one pass of the auto_pilot loop body over an email read at the start
pilot_email(sofar, email, pilot_req, faults, mark_fails) ==
    LET email_id == email.email_id
        category == email.row.category
        next(s) == FaultAt(faults, Len(s.ops) + 1)
        a == IF pilot_req.archive_newsletters /\ category = "Newsletter"
             THEN Guarded(sofar, delete_email(email_id, next(sofar)),
                          mark_as_deleted(sofar.store, email_id, mark_fails))
             ELSE sofar
        b == IF pilot_req.delete_spam /\ category = "Spam"
             THEN Guarded(a, delete_email(email_id, next(a)),
                          mark_as_deleted(a.store, email_id, mark_fails))
             ELSE a
        reply == email.row.clean_reply
    IN  IF pilot_req.auto_reply /\ email.row.needs_reply /\ ~email.row.sent
           /\ reply # <<>> /\ reply # NoReplyNeeded
        THEN Guarded(b, send_email_reply(email_id, next(b)),
                     mark_as_sent(b.store, email_id, mark_fails))
        ELSE b

RECURSIVE pilot_loop(_, _, _, _, _)
pilot_loop(sofar, emails, pilot_req, faults, mark_fails) ==
    IF emails = <<>> THEN sofar
    ELSE pilot_loop(pilot_email(sofar, Head(emails), pilot_req, faults, mark_fails),
                    Tail(emails), pilot_req, faults, mark_fails)

\* enterprise_app.py auto_pilot (POST /api/auto-pilot)
auto_pilot(st, pilot_req, read_fails, faults, mark_fails) ==
    pilot_loop([store |-> st, ops |-> <<>>], get_recent_emails(st, read_fails),
               pilot_req, faults, mark_fails)
    @@ [status |-> 200]

BatchActions == {"archive", "delete", "mark_read"}

\* one pass of the batch_action loop body; an exception of the gateway is
\* caught inside the loop
batch_email(sofar, email_id, action, faults, mark_fails) ==
    LET fault == FaultAt(faults, Len(sofar.ops) + 1)
    IN  IF action = "archive"
        THEN Guarded(sofar, archive_email(email_id, fault),
                     mark_as_archived(sofar.store, email_id, mark_fails))
        ELSE IF action = "delete"
        THEN Guarded(sofar, delete_email(email_id, fault),
                     mark_as_deleted(sofar.store, email_id, mark_fails))
        ELSE IF action = "mark_read"
        THEN [store |-> sofar.store, ops |-> Append(sofar.ops, mark_as_read(email_id, fault))]
        ELSE sofar

RECURSIVE batch_loop(_, _, _, _, _)
batch_loop(sofar, email_ids, action, faults, mark_fails) ==
    IF email_ids = <<>> THEN sofar
    ELSE batch_loop(batch_email(sofar, Head(email_ids), action, faults, mark_fails),
                    Tail(email_ids), action, faults, mark_fails)

\* enterprise_app.py batch_action (POST /api/batch)
batch_action(st, email_ids, action, faults, mark_fails) ==
    batch_loop([store |-> st, ops |-> <<>>], email_ids, action, faults, mark_fails)
    @@ [status |-> 200]

\* route calls made so far
RouteCalls == Get(ret, "n", 0)

\* save_email_analysis from a scan, with the outcome of each attempt
SavedByScan(i) ==
    /\ \E outcomes \in ScanOutcomeSeqs :
         store' = save_email_analysis(store, i, Email(i), StoreResult[i], outcomes).store
    /\ UNCHANGED <<creates, scan, task, started, lastSave, sideVars, flightVars, call>>
    /\ UNCHANGED appVars

SendReplyRoute(i) ==
    /\ RouteCalls < MaxRouteCalls
    /\ \E read_fails \in BOOLEAN, fault \in Faults, mark_fails \in BOOLEAN :
         LET r == send_reply_route(store, i, read_fails, fault, mark_fails)
         IN  /\ store' = r.store
             /\ ret' = [state |-> "returned", op |-> "send_reply_route", id |-> i,
                        n |-> RouteCalls + 1, ops |-> r.ops, status |-> r.status]
    /\ UNCHANGED <<creates, scan, task, started, lastSave, sideVars, flightVars, call>>
    /\ UNCHANGED <<variant, settings, cache, snoozed, analytics, gateway, probe>>

ArchiveRoute(i) ==
    /\ RouteCalls < MaxRouteCalls
    /\ \E fault \in Faults, mark_fails \in BOOLEAN :
         LET r == archive_route(store, i, fault, mark_fails)
         IN  /\ store' = r.store
             /\ ret' = [state |-> "returned", op |-> "archive_route", id |-> i,
                        n |-> RouteCalls + 1, ops |-> r.ops, status |-> r.status]
    /\ UNCHANGED <<creates, scan, task, started, lastSave, sideVars, flightVars, call>>
    /\ UNCHANGED <<variant, settings, cache, snoozed, analytics, gateway, probe>>

DeleteRoute(i) ==
    /\ RouteCalls < MaxRouteCalls
    /\ \E fault \in Faults, mark_fails \in BOOLEAN :
         LET r == delete_route(store, i, fault, mark_fails)
         IN  /\ store' = r.store
             /\ ret' = [state |-> "returned", op |-> "delete_route", id |-> i,
                        n |-> RouteCalls + 1, ops |-> r.ops, status |-> r.status]
    /\ UNCHANGED <<creates, scan, task, started, lastSave, sideVars, flightVars, call>>
    /\ UNCHANGED <<variant, settings, cache, snoozed, analytics, gateway, probe>>

SendEmail(i) ==
    /\ RouteCalls < MaxRouteCalls
    /\ \E read_fails \in BOOLEAN, fault \in Faults, mark_fails \in BOOLEAN :
         LET r == send_email(store, i, read_fails, fault, mark_fails)
         IN  /\ store' = r.store
             /\ ret' = [state |-> "returned", op |-> "send_email", id |-> i,
                        n |-> RouteCalls + 1, ops |-> r.ops, status |-> r.status]
    /\ UNCHANGED <<creates, scan, task, started, lastSave, sideVars, flightVars, call>>
    /\ UNCHANGED <<variant, settings, cache, snoozed, analytics, gateway, probe>>

ApiArchiveEmail(i) ==
    /\ RouteCalls < MaxRouteCalls
    /\ \E fault \in Faults, mark_fails \in BOOLEAN :
         LET r == api_archive_email(store, i, fault, mark_fails)
         IN  /\ store' = r.store
             /\ ret' = [state |-> "returned", op |-> "archive_email", id |-> i,
                        n |-> RouteCalls + 1, ops |-> r.ops, status |-> r.status]
    /\ UNCHANGED <<creates, scan, task, started, lastSave, sideVars, flightVars, call>>
    /\ UNCHANGED <<variant, settings, cache, snoozed, analytics, gateway, probe>>

ApiDeleteEmail(i) ==
    /\ RouteCalls < MaxRouteCalls
    /\ \E fault \in Faults, mark_fails \in BOOLEAN :
         LET r == api_delete_email(store, i, fault, mark_fails)
         IN  /\ store' = r.store
             /\ ret' = [state |-> "returned", op |-> "delete_email", id |-> i,
                        n |-> RouteCalls + 1, ops |-> r.ops, status |-> r.status]
    /\ UNCHANGED <<creates, scan, task, started, lastSave, sideVars, flightVars, call>>
    /\ UNCHANGED <<variant, settings, cache, snoozed, analytics, gateway, probe>>

AutoPilot ==
    /\ RouteCalls < MaxRouteCalls
    /\ \E pilot_req \in AutoPilotRequests, read_fails \in BOOLEAN,
          faults \in RouteFaultSeqs, mark_fails \in BOOLEAN :
         LET r == auto_pilot(store, pilot_req, read_fails, faults, mark_fails)
         IN  /\ store' = r.store
             /\ ret' = [state |-> "returned", op |-> "auto_pilot", id |-> "all",
                        n |-> RouteCalls + 1, ops |-> r.ops, status |-> r.status]
    /\ UNCHANGED <<creates, scan, task, started, lastSave, sideVars, flightVars, call>>
    /\ UNCHANGED <<variant, settings, cache, snoozed, analytics, gateway, probe>>

BatchAction ==
    /\ RouteCalls < MaxRouteCalls
    /\ \E ids \in SUBSET Ids, action \in BatchActions,
          faults \in RouteFaultSeqs, mark_fails \in BOOLEAN :
         LET r == batch_action(store, IdSeq(ids), action, faults, mark_fails)
         IN  /\ store' = r.store
             /\ ret' = [state |-> "returned", op |-> "batch_action", id |-> "all",
                        n |-> RouteCalls + 1, ops |-> r.ops, status |-> r.status]
    /\ UNCHANGED <<creates, scan, task, started, lastSave, sideVars, flightVars, call>>
    /\ UNCHANGED <<variant, settings, cache, snoozed, analytics, gateway, probe>>

----------------------------------------------------------------------------
(* rate_limit (src/ai_agent.py): the decorator around analyze_email.  The  *)
(* list calls_made lives in the decorator's closure, one for the decorated *)
(* method, and every pool worker that calls analyze_email runs the wrapper *)
(* on it without a lock.  A wrapper call is followed statement by          *)
(* statement; the list comprehension reads the list and the slice          *)
(* assignment writes it back in a later step.  Time is counted in ticks.   *)

\* the pool workers that call analyze_email
Callers == {"w1", "w2"}

\* wrapper calls in one behaviour
MaxCalls == 4

\* ticks of the clock in one behaviour
MaxClock == 4

\* @rate_limit(calls=30, period=60), scaled down
calls == 2
period == 3

IdleCaller == [pc |-> "idle", now |-> 0, kept |-> <<>>, saturated |-> FALSE,
               wake |-> 0, slept |-> FALSE]

LimitInit ==
    /\ clock = 0
    /\ calls_made = <<>>
    /\ caller = [c \in Callers |-> IdleCaller]
    /\ acquired = [t \in 0..MaxClock |-> 0]
    /\ entered = 0

\* [c for c in calls_made if c > now - period]
Recent(list, now) == SelectSeq(list, LAMBDA c : c > now - period)

\* now = time.time() and the list comprehension over calls_made
WrapperEnter(c) ==
    /\ caller[c].pc \in {"idle", "raised"}
    /\ entered < MaxCalls
    /\ entered' = entered + 1
    /\ caller' = [caller EXCEPT ![c] =
                    [IdleCaller EXCEPT !.pc = "purge", !.now = clock,
                                       !.kept = Recent(calls_made, clock)]]
    /\ UNCHANGED <<clock, calls_made, acquired>>
    /\ UNCHANGED <<scanVars, lastSave, flightVars, call, appVars, poolVars, lastMark>>

\* calls_made[:] = ... : the list takes the content computed before
WrapperPurge(c) ==
    /\ caller[c].pc = "purge"
    /\ calls_made' = caller[c].kept
    /\ caller' = [caller EXCEPT ![c].pc = "check"]
    /\ UNCHANGED <<clock, acquired, entered>>
    /\ UNCHANGED <<scanVars, lastSave, flightVars, call, appVars, poolVars, lastMark>>

\* if len(calls_made) >= calls
WrapperCheck(c) ==
    /\ caller[c].pc = "check"
    /\ caller' = [caller EXCEPT ![c].saturated = Len(calls_made) >= calls,
                                ![c].pc = IF Len(calls_made) >= calls THEN "index"
                                                                     ELSE "append"]
    /\ UNCHANGED <<clock, calls_made, acquired, entered>>
    /\ UNCHANGED <<scanVars, lastSave, flightVars, call, appVars, poolVars, lastMark>>

\* sleep_time = period - (now - calls_made[0]); time.sleep(sleep_time):
\* IndexError on an empty list, ValueError on a negative sleep_time,
\* otherwise the tick at which the sleep is over
sleep_or_raise(list, now, at) ==
    IF list = <<>> THEN [raises |-> TRUE]
    ELSE LET sleep_time == period - (now - list[1])
         IN  IF sleep_time < 0 THEN [raises |-> TRUE]
             ELSE [raises |-> FALSE, wake |-> at + sleep_time]

\* the saturated branch, up to the start of the sleep; an exception leaves
\* the wrapper and analyze_email is not called
WrapperSleep(c) ==
    /\ caller[c].pc = "index"
    /\ LET r == sleep_or_raise(calls_made, caller[c].now, clock)
       IN  IF r.raises
           THEN caller' = [caller EXCEPT ![c].pc = "raised"]
           ELSE caller' = [caller EXCEPT ![c].pc = "sleep", ![c].wake = r.wake,
                                         ![c].slept = TRUE]
    /\ UNCHANGED <<clock, calls_made, acquired, entered>>
    /\ UNCHANGED <<scanVars, lastSave, flightVars, call, appVars, poolVars, lastMark>>

\* time.sleep returns, not before the time asked for
WrapperWake(c) ==
    /\ caller[c].pc = "sleep"
    /\ clock >= caller[c].wake
    /\ caller' = [caller EXCEPT ![c].pc = "append"]
    /\ UNCHANGED <<clock, calls_made, acquired, entered>>
    /\ UNCHANGED <<scanVars, lastSave, flightVars, call, appVars, poolVars, lastMark>>

\* calls_made.append(time.time()); return func(*args, **kwargs)
WrapperCall(c) ==
    /\ caller[c].pc = "append"
    /\ calls_made' = Append(calls_made, clock)
    /\ acquired' = [acquired EXCEPT ![clock] = @ + 1]
    /\ caller' = [caller EXCEPT ![c].pc = "idle"]
    /\ UNCHANGED <<clock, entered>>
    /\ UNCHANGED <<scanVars, lastSave, flightVars, call, appVars, poolVars, lastMark>>

\* time passes
Tick ==
    /\ clock < MaxClock
    /\ clock' = clock + 1
    /\ UNCHANGED <<calls_made, caller, acquired, entered>>
    /\ UNCHANGED <<scanVars, lastSave, flightVars, call, appVars, poolVars, lastMark>>

----------------------------------------------------------------------------
(* The /scan route of ultimate_app.py and working_app.py: process_email is *)
(* submitted to a thread pool once per fetched message, and the workers    *)
(* update ANALYTICS_DATA in place.  ANALYTICS_DATA['total_processed'] += 1 *)
(* is a read of the entry followed by a write of the sum; a worker is      *)
(* followed up to the read and from the write on.                          *)

\* /scan requests in one behaviour
MaxRouteScans == 2

IdleWorker == [pc |-> "none", loaded |-> 0, client |-> [kind |-> "error"],
               result |-> NoneResult]
IdleRoute == [pc |-> "idle", n |-> 0, batch |-> {}, base |-> 0, processed_count |-> 0]

\* process_email of the module that runs, as one call
Pipeline(email_id, client, faults) ==
    IF variant = "ultimate_app"
    THEN process_email(email_id, settings, cache, snoozed, analytics, client, faults)
    ELSE process_email_with_analytics(email_id, settings, cache, snoozed, analytics,
                                      client, faults)

\* scan: fetch_unread_emails and one executor.submit per message
RouteScan ==
    /\ route.pc \in {"idle", "done"}
    /\ route.n < MaxRouteScans
    /\ \E raw \in SUBSET Ids :
         /\ route' = [pc |-> IF raw = {} THEN "done" ELSE "running", n |-> route.n + 1,
                      batch |-> raw, base |-> analytics.total_processed,
                      processed_count |-> 0]
         /\ worker' = [i \in Ids |-> IF i \in raw THEN [IdleWorker EXCEPT !.pc = "queued"]
                                     ELSE IdleWorker]
    /\ UNCHANGED <<appVars, limitVars, lastMark>>
    /\ UNCHANGED <<scanVars, lastSave, flightVars, call>>

\* STORE_SUBSCR of `+= 1`: the entry becomes the value read plus one
IncrementFrom(an, loaded) == [an EXCEPT !.total_processed = loaded + 1]

\* process_email up to the read of ANALYTICS_DATA['total_processed']: the
\* snoozed and cache checks, analyze_email, the scorer and the rules.  An
\* exception inside the try block makes the call return None.
WorkerBegin(i) ==
    /\ route.pc = "running"
    /\ worker[i].pc = "queued"
    /\ \/ \E client \in ScanClientOutcomes :
            \E r \in {Pipeline(i, client, AllOk)} :
                IF r.steps = <<>>
                THEN /\ worker' = [worker EXCEPT ![i].pc = "done", ![i].result = r.result]
                     /\ UNCHANGED gateway
                ELSE /\ worker' = [worker EXCEPT ![i].pc = "loaded", ![i].client = client,
                                                ![i].loaded = analytics.total_processed]
                     /\ gateway' = gateway \o r.auto.ops
       \/ /\ worker' = [worker EXCEPT ![i].pc = "done", ![i].result = NoneResult]
          /\ UNCHANGED gateway
    /\ UNCHANGED <<variant, settings, cache, snoozed, analytics, ret, probe>>
    /\ UNCHANGED <<route, limitVars, lastMark>>
    /\ UNCHANGED <<scanVars, lastSave, flightVars, call>>

\* process_email from the write of the counter on: the draft, the cache
\* entry and the return
WorkerStore(i) ==
    /\ worker[i].pc = "loaded"
    /\ \E r \in {Pipeline(i, worker[i].client, AllOk)} :
           /\ analytics' = IncrementFrom(analytics, worker[i].loaded)
           /\ gateway' = gateway \o SubSeq(r.ops, Len(r.auto.ops) + 1, Len(r.ops))
           /\ cache' = Upsert(cache, i, r.cache[i])
           /\ worker' = [worker EXCEPT ![i].pc = "done", ![i].result = r.result]
    /\ UNCHANGED <<variant, settings, snoozed, ret, probe>>
    /\ UNCHANGED <<route, limitVars, lastMark>>
    /\ UNCHANGED <<scanVars, lastSave, flightVars, call>>

\* scan: the as_completed loop has counted the truthy results and the
\* with block is left
RouteReturn ==
    /\ route.pc = "running"
    /\ \A i \in route.batch : worker[i].pc = "done"
    /\ route' = [route EXCEPT !.pc = "done",
                              !.processed_count =
                                  Cardinality({i \in route.batch : worker[i].result.kind = "data"})]
    /\ UNCHANGED <<appVars, worker, limitVars, lastMark>>
    /\ UNCHANGED <<scanVars, lastSave, flightVars, call>>

----------------------------------------------------------------------------
(* Specifications                                                          *)

IdleFlight == FlightInit

\* the rate limiter, the /scan route of the apps and the mark_as_* calls
\* before anything has called them
IdleSide ==
    /\ LimitInit
    /\ worker = [i \in Ids |-> IdleWorker]
    /\ route = IdleRoute
    /\ lastMark = NoMark

Init ==
    /\ ScanInit
    /\ lastSave = NoSave
    /\ IdleFlight
    /\ call = NoCall
    /\ IdleApp
    /\ IdleSide

Next ==
    \/ \E th \in Threads : ScanStart(th)
    \/ \E th \in Threads, i \in Ids : TaskRead(th, i)
    \/ \E th \in Threads, i \in Ids : TaskAnalyze(th, i)
    \/ \E th \in Threads, i \in Ids : TaskSave(th, i)
    \/ \E th \in Threads, i \in Ids : TaskDraft(th, i)
    \/ \E th \in Threads, i \in Ids : TaskCollect(th, i)
    \/ \E th \in Threads : ScanReturn(th)

\* The scanner, the store and overlapping /scan requests
Spec == Init /\ [][Next]_vars

\* a /scan request that arrives when no other scan is under way
ScanStartAlone(th) ==
    /\ \A other \in Threads : scan[other].pc # "running"
    /\ ScanStart(th)

SpecSerialNext ==
    \/ \E th \in Threads : ScanStartAlone(th)
    \/ \E th \in Threads, i \in Ids : TaskRead(th, i)
    \/ \E th \in Threads, i \in Ids : TaskAnalyze(th, i)
    \/ \E th \in Threads, i \in Ids : TaskSave(th, i)
    \/ \E th \in Threads, i \in Ids : TaskDraft(th, i)
    \/ \E th \in Threads, i \in Ids : TaskCollect(th, i)
    \/ \E th \in Threads : ScanReturn(th)

\* The scanner and the store when scans follow one another without overlap
SpecSerial == Init /\ [][SpecSerialNext]_vars

\* A pool worker runs the task it was handed until the task returns: every
\* call the task makes returns or raises.
WorkerRuns(th, i) ==
    \/ TaskRead(th, i)
    \/ TaskAnalyze(th, i)
    \/ TaskSave(th, i)
    \/ TaskDraft(th, i)

\* The thread in scan_parallel takes every finished future from
\* as_completed and leaves the with block once there is none left.
ScanRuns(th) ==
    \/ \E i \in Ids : TaskCollect(th, i)
    \/ ScanReturn(th)

\* the request thread whose scans are followed to their end
LiveThreads == {"t1"}

ScanFairness ==
    /\ \A th \in LiveThreads, i \in Ids : WF_vars(WorkerRuns(th, i))
    /\ \A th \in LiveThreads : WF_vars(ScanRuns(th))

SpecLiveNext ==
    \/ \E th \in LiveThreads : ScanStart(th)
    \/ \E th \in LiveThreads, i \in Ids : WorkerRuns(th, i)
    \/ \E th \in LiveThreads : ScanRuns(th)

SpecLimitInit ==
    /\ ScanInit
    /\ lastSave = NoSave
    /\ IdleFlight
    /\ call = NoCall
    /\ IdleApp
    /\ IdleSide

SpecLimitNext ==
    \/ \E c \in Callers : WrapperEnter(c)
    \/ \E c \in Callers : WrapperPurge(c)
    \/ \E c \in Callers : WrapperCheck(c)
    \/ \E c \in Callers : WrapperSleep(c)
    \/ \E c \in Callers : WrapperWake(c)
    \/ \E c \in Callers : WrapperCall(c)
    \/ Tick

\* Pool workers calling analyze_email through the rate_limit wrapper
SpecLimit == SpecLimitInit /\ [][SpecLimitNext]_vars

SpecPoolInit ==
    /\ ScanInit
    /\ lastSave = NoSave
    /\ IdleFlight
    /\ call = NoCall
    /\ IdleSide
    /\ variant \in Variants
    /\ settings = DefaultSettings
    /\ cache = EmptyStore
    /\ snoozed = {}
    /\ analytics = [total_processed |-> 0]
    /\ gateway = <<>>
    /\ ret = IdleCall
    /\ probe = IdleCall

SpecPoolNext ==
    \/ RouteScan
    \/ \E i \in Ids : WorkerBegin(i)
    \/ \E i \in Ids : WorkerStore(i)
    \/ RouteReturn

\* The /scan route of the apps with its pool of process_email workers
SpecPool == SpecPoolInit /\ [][SpecPoolNext]_vars

SpecMarksInit == SpecLimitInit

SpecMarksNext ==
    \/ \E i \in Ids : MarkedSave(i)
    \/ \E i \in Ids : MarkSent(i)
    \/ \E i \in Ids : MarkArchived(i)
    \/ \E i \in Ids : MarkDeleted(i)

\* The store under saves and every sequence of mark_as_* calls
SpecMarks == SpecMarksInit /\ [][SpecMarksNext]_vars

SpecRoutesInit == SpecLimitInit

SpecRoutesNext ==
    \/ \E i \in Ids : SavedByScan(i)
    \/ \E i \in Ids : SendReplyRoute(i)
    \/ \E i \in Ids : ArchiveRoute(i)
    \/ \E i \in Ids : DeleteRoute(i)
    \/ \E i \in Ids : SendEmail(i)
    \/ \E i \in Ids : ApiArchiveEmail(i)
    \/ \E i \in Ids : ApiDeleteEmail(i)
    \/ AutoPilot
    \/ BatchAction

\* The rows a scan saved under every sequence of route calls
SpecRoutes == SpecRoutesInit /\ [][SpecRoutesNext]_vars

\* The scanner, one scan after another, with threads that keep running
SpecLive == Init /\ [][SpecLiveNext]_vars /\ ScanFairness

SpecAnalyzeInit ==
    /\ ScanInit
    /\ lastSave = NoSave
    /\ IdleFlight
    /\ AnalyzeInit
    /\ IdleApp
    /\ IdleSide

SpecAnalyzeNext == AnalyzeEmail

\* analyze_email applied to every drawn sender, subject, body and client outcome
SpecAnalyze == SpecAnalyzeInit /\ [][SpecAnalyzeNext]_vars

SpecStoreInit == Init

SpecStoreNext == \E i \in Ids : StoreSave(i)

\* The store under every sequence of save_email_analysis calls
SpecStore == SpecStoreInit /\ [][SpecStoreNext]_vars

SpecFlightInit == Init

SpecFlightNext ==
    \/ \E r \in Reqs : ScanEnter(r)
    \/ \E r \in Reqs : ScanFetch(r)
    \/ \E r \in Reqs : ScanDispatch(r)
    \/ \E r \in Reqs, k \in 1..(MaxBatch + 1) : WorkerFinish(r, k)
    \/ \E r \in Reqs : ScanCollect(r)
    \/ \E r \in Reqs : ScanResume(r)
    \/ \E r \in Reqs : ScanFail(r)

\* Scan requests against the single-flight handler of enterprise_app.py
SpecFlight == SpecFlightInit /\ [][SpecFlightNext]_vars

IdleRest ==
    /\ ScanInit
    /\ lastSave = NoSave
    /\ IdleFlight
    /\ call = NoCall
    /\ IdleSide

SpecScoreInit == IdleRest /\ ScoreInit

\* the message a scan processes between two calls of the scorer
ScoreMail == {"m1"}

SpecScoreNext ==
    \/ CalculatePriority
    \/ toggle_autopilot
    \/ \E i \in ScoreMail : ProcessEmail(i, [kind |-> "error"], AllOk)

\* The scorer called again and again on one input while the app runs
SpecScore == SpecScoreInit /\ [][SpecScoreNext]_vars

SpecPilotInit == IdleRest /\ PilotInit

SpecPilotNext == ApplyAutopilot

\* The auto-pilot rules on every drawn message, rule set and Gmail outcome
SpecPilot == SpecPilotInit /\ [][SpecPilotNext]_vars

SpecTriageInit ==
    /\ IdleRest
    /\ variant \in Variants
    /\ settings \in AllSettings
    /\ cache = EmptyStore
    /\ snoozed = {}
    /\ analytics = [total_processed |-> 0]
    /\ gateway = <<>>
    /\ ret = IdleCall
    /\ probe = IdleCall

SpecTriageNext ==
    \E i \in Ids, client \in TriageClientOutcomes, faults \in FaultSeqs :
        ProcessEmail(i, client, faults)

\* The scan tasks of ultimate_app / working_app under every stored rule set
SpecTriage == SpecTriageInit /\ [][SpecTriageNext]_vars

----------------------------------------------------------------------------
(* Properties                                                              *)

\* C1 - Dedupe: analyze_email is never called for a message id while a
\* Record for that id exists in the Store, over any number of scans, also
\* when the cache lookup fails internally.
C1_NoClassifyWhileRecord ==
    [][\A th \in Threads, i \in Ids :
          (task[th][i].pc = "analyze" /\ task'[th][i].pc = "save")
              => i \notin DOMAIN store]_vars

\* C2 - save_email_analysis succeeds at most once per message id for the
\* lifetime of the store, under every interleaving of scan requests.
C2_CreateOnce == \A i \in Ids : creates[i] <= 1

Classification(row) ==
    <<row.category, row.priority, row.clean_reply, row.needs_reply, row.is_fallback>>

\* C3 - the classification fields of a Record are write-once: no step
\* changes category, priority, reply, needs_reply or is_fallback of a
\* Record that exists.
C3_WriteOnce ==
    [][\A i \in DOMAIN store :
          i \in DOMAIN store' /\ Classification(store'[i]) = Classification(store[i])]_vars

\* C4 - Conservation: every report returned by scan_parallel has
\* processed + cached + errors = total, total being the number of messages
\* fetched.
C4_Conservation ==
    \A th \in Threads :
        scan[th].pc = "done" =>
            /\ scan[th].results.total = Cardinality(scan[th].emails)
            /\ scan[th].results.processed + scan[th].results.cached
                  + scan[th].results.errors = scan[th].results.total

C4_Witness ==
    \E th \in Threads :
        /\ scan[th].pc = "done"
        /\ scan[th].results.total = 2
        /\ scan[th].results.errors = 1
        /\ scan[th].results.cached = 1

\* C5 - a message whose save_email_analysis failed is returned with status
\* error, not processed.
C5_FailedSaveIsError ==
    \A th \in Threads, i \in Ids :
        (task[th][i].pc = "done" /\ task[th][i].saved = "failed")
            => task[th][i].status = "error"

\* C6 - save_email_analysis makes at most 3 write attempts, retries after
\* each of the first two lock-contention failures, returns True as soon as
\* an attempt commits, and returns False, never raising, after the third
\* lock-contention failure.
C6_SaveRetries ==
    lastSave.state = "returned" =>
        LET o == lastSave.outcomes
        IN  /\ lastSave.ret \in {"True", "False"}
            /\ lastSave.attempts \in 1..3
            /\ o[1] = "commit" => (lastSave.ret = "True" /\ lastSave.attempts = 1)
            /\ (o[1] = "locked" /\ o[2] = "commit")
                  => (lastSave.ret = "True" /\ lastSave.attempts = 2)
            /\ (o[1] = "locked" /\ o[2] = "locked" /\ o[3] = "commit")
                  => (lastSave.ret = "True" /\ lastSave.attempts = 3)
            /\ (o[1] = "locked" /\ o[2] = "locked" /\ o[3] = "locked")
                  => (lastSave.ret = "False" /\ lastSave.attempts = 3)
            /\ lastSave.ret = "True" => o[lastSave.attempts] = "commit"

C6_Witness ==
    /\ lastSave.state = "returned"
    /\ lastSave.outcomes[1] = "locked"
    /\ lastSave.outcomes[2] = "locked"
    /\ lastSave.outcomes[3] = "locked"
    /\ lastSave.ret = "False"
    /\ lastSave.attempts = 3

\* C7 - when save_email_analysis has just failed for a message, no Record
\* for that id exists in the Store.
C7_NoRecordAfterFailedSave ==
    [][\A th \in Threads, i \in Ids :
          (task[th][i].saved # "failed" /\ task'[th][i].saved = "failed")
              => i \notin DOMAIN store']_vars

\* C8 - Single-flight: a request that finds the flag set is answered
\* already_processing without fetching or starting a pool, only such
\* requests are answered so, and two pools are never active together.
C8_SingleFlight ==
    /\ Cardinality({r \in Reqs : PoolActive(r)}) <= 1
    /\ \A r \in Reqs :
          /\ req[r].saw_flag =>
                /\ req[r].pc = "done"
                /\ req[r].status = "already_processing"
                /\ ~req[r].fetched
                /\ req[r].workers = <<>>
          /\ req[r].status = "already_processing" => req[r].saw_flag

C8_Witness ==
    \E r1 \in Reqs, r2 \in Reqs :
        /\ PoolActive(r1)
        /\ \E k \in DOMAIN req[r1].workers : req[r1].workers[k] = "running"
        /\ req[r2].status = "already_processing"

\* C9 - the flag is released on every way a scan ends: whenever no scan is
\* under way the flag is clear (so the next request is accepted), and
\* while it is set exactly one scan is under way.
C9_FlagReleased ==
    LET active == {r \in Reqs : req[r].pc \notin {"idle", "done"}}
    IN  /\ active = {} => ~processing
        /\ processing => Cardinality(active) = 1

C9_Witness ==
    \E r1 \in Reqs, r2 \in Reqs :
        /\ req[r1].pc = "done"
        /\ req[r1].status = "failed"
        /\ req[r2].pc = "started"

\* sender contains pattern p, compared character by character without
\* regard to case
ContainsIgnoreCase(s, p) ==
    \E i \in 0..(Len(s) - Len(p)) :
        \A j \in 1..Len(p) : LowerChar(s[i + j]) = LowerChar(p[j])

\* C10 - No-reply shortcut: a sender containing one of the seven patterns,
\* in any case, gets Newsletter / Low / "No reply needed" / needs_reply
\* false, not flagged as fallback, with zero client calls, for every
\* subject and body; any other sender is passed to the client.
C10_NoReplyShortcut ==
    call.state = "returned" =>
        IF \E p \in no_reply_patterns : ContainsIgnoreCase(call.sender, p)
        THEN /\ call.result.category = "Newsletter"
             /\ call.result.priority = "Low"
             /\ call.result.reply = <<"No reply needed">>
             /\ call.result.needs_reply = FALSE
             /\ Get(call.result, "is_fallback", FALSE) = FALSE
             /\ call.client_calls = 0
        ELSE call.client_calls = 1

C10_Witness ==
    /\ call.state = "returned"
    /\ Contains(call.sender, <<"M","A","I","L","E","R","-","D","A","E","M","O","N">>)
    /\ call.client.kind = "json"
    /\ call.client_calls = 0
    /\ call.result.category = "Newsletter"

\* C11 - Classifier failure fallback: whenever the client call fails,
\* analyze_email returns (it does not raise) a verdict flagged is_fallback;
\* it is Newsletter / needs_reply false / "No reply needed" if the subject
\* contains newsletter, unsubscribe or promotion in any case, and otherwise
\* Personal / needs_reply true with the acknowledgment reply.
C11_FailureFallback ==
    (call.state = "returned" /\ call.client_calls = 1 /\ call.client.kind = "error") =>
        /\ Get(call.result, "is_fallback", FALSE) = TRUE
        /\ IF \E w \in {W_newsletter, W_unsubscribe, W_promotion} :
                  ContainsIgnoreCase(call.subject, w)
           THEN /\ call.result.category = "Newsletter"
                /\ call.result.needs_reply = FALSE
                /\ call.result.reply = <<"No reply needed">>
           ELSE /\ call.result.category = "Personal"
                /\ call.result.needs_reply = TRUE
                /\ \E k \in 1..Len(call.result.reply) :
                       call.result.reply[k] = "automated acknowledgment"

C11_Witness ==
    /\ call.state = "returned"
    /\ call.client.kind = "error"
    /\ call.client_calls = 1
    /\ Contains(call.subject, <<"U","N","S","U","B","S","C","R","I","B","E">>)
    /\ call.result.category = "Newsletter"
    /\ call.result.is_fallback

Categories == {"Important", "Personal", "Newsletter", "Spam"}
PriorityHints == {"High", "Medium", "Low"}

\* C12 - Verdict range: every verdict returned by analyze_email has its
\* category among Important, Personal, Newsletter, Spam and a priority
\* among High, Medium, Low, whatever the client returned.
C12_VerdictInRange ==
    call.state = "returned" =>
        /\ call.result.category \in Categories
        /\ "priority" \in DOMAIN call.result
        /\ call.result.priority \in PriorityHints

\* the total of the weighted-sum algorithm: +30 for a subject with at least
\* one urgency keyword in any case, the category bonus and the hint bonus
WeightedTotal(subject, ai_result) ==
    LET cat == Get(ai_result, "category", "")
        hint == Get(ai_result, "priority", "Low")
    IN  (IF \E k \in urgent_keywords : ContainsIgnoreCase(subject, k) THEN 30 ELSE 0)
        + (CASE cat = "Important" -> 40 [] cat = "Personal" -> 20
             [] cat = "Spam" -> 0 - 50 [] OTHER -> 0)
        + (CASE hint = "High" -> 30 [] hint = "Medium" -> 15 [] OTHER -> 0)

BucketOf(total) ==
    CASE total >= 50 -> "HIGH" [] total >= 25 /\ total < 50 -> "MEDIUM" [] total < 25 -> "LOW"

\* C13 - PriorityScorer result: for every subject, category and hint,
\* ultimate_app's calculate_priority returns the bucket of the weighted
\* total (HIGH from 50, MEDIUM from 25 to 49, LOW below 25).
C13_ScorerResult ==
    (probe.op = "calculate_priority" /\ variant = "ultimate_app") =>
        \A k \in 1..Len(probe.evals) :
            probe.evals[k].bucket = BucketOf(WeightedTotal(probe.subject, probe.ai_result))

C13_Witness ==
    /\ probe.op = "calculate_priority"
    /\ variant = "ultimate_app"
    /\ Contains(probe.subject, <<"d","e","a","d","l","i","n","e">>)
    /\ probe.ai_result = [category |-> "Important", priority |-> "High"]
    /\ Len(probe.evals) >= 1
    /\ probe.evals[1].score = 100
    /\ probe.evals[1].bucket = "HIGH"

\* C14 - MEDIUM floor: in every scorer of the repository a message whose
\* weighted total lies between 20 and 24 is bucketed LOW, never MEDIUM.
C14_MediumFloor ==
    probe.op = "calculate_priority" =>
        \A k \in 1..Len(probe.evals) :
            probe.evals[k].score \in 20..24 => probe.evals[k].bucket = "LOW"

\* the urgency keywords of the scorer that runs
KeywordsOf(v) == IF v = "ultimate_app" THEN urgent_keywords ELSE working_app_urgent_keywords

\* C15 - Single urgency bonus: the urgency part of the total is +30 when
\* the subject contains at least one of the scorer's urgency keywords and 0
\* otherwise, so a subject with several keywords totals the same as one
\* with a single keyword.
C15_SingleUrgencyBonus ==
    probe.op = "calculate_priority" =>
        \A k \in 1..Len(probe.evals) :
            probe.evals[k].urgency =
                IF \E w \in KeywordsOf(variant) : ContainsIgnoreCase(probe.subject, w)
                THEN 30 ELSE 0

ActionsOn(email_id) ==
    SelectSeq(gateway, LAMBDA o : o.id = email_id /\ o.op \in {"archive", "delete"})

\* C17 - Single action: one pass of the auto-pilot rules makes at most one
\* archive or delete request for the message, also when several enabled
\* rules match.
C17_SingleAction ==
    probe.op = "apply_autopilot" => Len(ActionsOn(probe.id)) <= 1

\* the action a label stands for
ActionKind(label) ==
    CASE label \in {"Archived (Newsletter)", "Auto-archived (Newsletter)"} -> "archived-newsletter"
      [] label \in {"Deleted (Spam)", "Auto-deleted (Spam)"} -> "deleted-spam"
      [] label \in {"Archived (Low Prio)", "Auto-archived (Low Priority)"} -> "archived-low-priority"
      [] OTHER -> None

\* the first matching rule in the order newsletters, spam, low priority
FirstMatch(st, category, priority) ==
    IF st.archive_newsletters /\ category = "Newsletter" THEN "archived-newsletter"
    ELSE IF st.delete_spam /\ category = "Spam" THEN "deleted-spam"
    ELSE IF st.archive_low_priority /\ priority = "LOW"
            /\ category # "Important" /\ category # "Personal" THEN "archived-low-priority"
    ELSE None

\* C18 - Rule precedence: with the rule set enabled (and no gateway call
\* raising), the action returned is that of the first matching rule in the
\* order archive-newsletters, delete-spam, archive-low-priority, and None
\* when no rule matches.
C18_RulePrecedence ==
    (probe.op = "apply_autopilot" /\ probe.state = "returned"
        /\ settings.enabled /\ ~probe.raised) =>
        ActionKind(probe.action_taken) = FirstMatch(settings, probe.category, probe.priority)

\* C19 - Disabled rule set: with enabled false the rules request nothing
\* from the gateway and return no action, whatever the rule flags, the
\* category and the priority.
C19_DisabledNoOp ==
    (probe.op = "apply_autopilot" /\ probe.state = "returned" /\ ~settings.enabled) =>
        /\ probe.action_taken = None
        /\ gateway = <<>>

C19_Witness ==
    /\ probe.op = "apply_autopilot"
    /\ probe.state = "returned"
    /\ ~settings.enabled
    /\ settings.archive_newsletters /\ settings.delete_spam /\ settings.archive_low_priority
    /\ probe.category = "Newsletter"
    /\ probe.priority = "LOW"
    /\ probe.action_taken = None

\* C20 - Gateway exception in the rules: when the archive request made by
\* ultimate_app's rules raises, the rules return None and process_email
\* still returns the message and writes it to the cache with the category
\* of its verdict and no automation action.
C20_RaiseIsNoAction ==
    (ret.op = "process_email" /\ variant = "ultimate_app" /\ ret.auto.raised) =>
        /\ ret.auto.action_taken = None
        /\ ret.result.kind = "data"
        /\ ret.id \in DOMAIN cache
        /\ cache[ret.id].category = ret.verdict.category
        /\ cache[ret.id].autopilot_action = None

C20_Witness ==
    /\ ret.op = "process_email"
    /\ variant = "ultimate_app"
    /\ ret.auto.raised
    /\ ret.id \in DOMAIN cache
    /\ cache[ret.id].category = "Newsletter"
    /\ ret.result.kind = "data"
    /\ ~ret.result.cached

\* C21 - Gateway failure reported as False: when every request the rules of
\* ultimate_app made came back False, no automation action is recorded for
\* the message (none returned, none in the cache entry) and a verdict that
\* needs a reply still gets its draft.
C21_FalseIsNoAction ==
    (/\ ret.op = "process_email"
     /\ variant = "ultimate_app"
     /\ Len(ret.auto.ops) > 0
     /\ \A k \in DOMAIN ret.auto.ops : ret.auto.ops[k].result = "False") =>
        /\ ret.auto.action_taken = None
        /\ cache[ret.id].autopilot_action = None
        /\ (Truthy(ret.verdict, "needs_reply") =>
                \E k \in DOMAIN ret.steps : ret.steps[k] = "draft")

\* the requests of kind `op` made for message `email_id`, as logged
RequestsOn(email_id, op) ==
    {k \in DOMAIN gateway : gateway[k].id = email_id /\ gateway[k].op = op}

\* C22 - Draft only without automation: process_email (either app) requests
\* a draft for a message only if its verdict has needs_reply true and the
\* rules returned no action for it; no message has both a draft request and
\* a successful archive or delete request in the gateway log.
C22_DraftOnlyWithoutAction ==
    /\ ret.op = "process_email" =>
         ((\E k \in DOMAIN ret.steps : ret.steps[k] = "draft") =>
              /\ Truthy(ret.verdict, "needs_reply")
              /\ ret.auto.action_taken = None
              /\ RequestsOn(ret.id, "draft") # {})
    /\ \A i \in Ids :
         RequestsOn(i, "draft") # {} =>
             \A k \in RequestsOn(i, "archive") \cup RequestsOn(i, "delete") :
                 gateway[k].result # "True"

C22_Witness ==
    /\ ret.op = "process_email"
    /\ variant = "ultimate_app"
    /\ ret.verdict.category = "Spam"
    /\ Truthy(ret.verdict, "needs_reply")
    /\ ret.auto.action_taken = "Deleted (Spam)"
    /\ \E k \in RequestsOn(ret.id, "delete") : gateway[k].result = "True"
    /\ RequestsOn(ret.id, "draft") = {}

Outcomes == {"processed", "cached", "error"}

\* C23 - Error isolation and completion: a scan that dispatched tasks
\* eventually returns its report; every dispatched task eventually returns
\* one of processed, cached, error, whatever happens to its siblings; and
\* when the report is returned every message of the batch has one outcome.
C23_Completion ==
    /\ \A th \in LiveThreads : (scan[th].pc = "running") ~> (scan[th].pc = "done")
    /\ \A th \in LiveThreads, i \in Ids :
         (task[th][i].pc = "queued") ~>
             (task[th][i].pc = "done" /\ task[th][i].status \in Outcomes)
    /\ [](\A th \in LiveThreads :
            scan[th].pc = "done" =>
                \A i \in scan[th].emails :
                    /\ task[th][i].pc = "done"
                    /\ task[th][i].status \in Outcomes)

C23_Witness ==
    \E th \in LiveThreads :
        /\ scan[th].pc = "done"
        /\ scan[th].emails = Ids
        /\ \E i, j \in Ids : /\ task[th][i].status = "error"
                             /\ task[th][j].status = "processed"

\* C24 - Barrier: when scan_parallel has returned its report, no task of
\* that scan is waiting, classifying, persisting or drafting: every task it
\* dispatched has returned and has been handed over by as_completed.
C24_Barrier ==
    \A th \in Threads :
        scan[th].pc = "done" =>
            \A i \in Ids :
                /\ task[th][i].pc \notin {"queued", "analyze", "save", "draft"}
                /\ i \in scan[th].emails =>
                       (task[th][i].pc = "done" /\ task[th][i].collected)

C24_Witness ==
    \E th, other \in Threads :
        /\ scan[th].pc = "done"
        /\ scan[th].emails = Ids
        /\ \A i \in Ids : task[th][i].pc = "done" /\ task[th][i].collected
        /\ scan[other].pc = "running"
        /\ \E i \in Ids : task[other][i].pc \in {"analyze", "save", "draft"}

\* C25 - Empty batch: a scan that fetched no message returns the report
\* {total 0, processed 0, cached 0, errors 0} in the step that fetched:
\* it is never running, it has no task, and the step that returns it
\* leaves the Store and the create counts as they were.
C25_EmptyBatch ==
    /\ [](\A th \in Threads :
            /\ scan[th].pc = "running" => scan[th].emails # {}
            /\ (scan[th].pc = "done" /\ scan[th].emails = {}) =>
                   /\ scan[th].results = ZeroResults
                   /\ \A i \in Ids : task[th][i] = NoTask)
    /\ [][\A th \in Threads :
            (scan'[th] # scan[th] /\ scan'[th].emails = {}) =>
                /\ scan'[th].pc = "done"
                /\ store' = store
                /\ creates' = creates
                /\ \A other \in Threads \ {th} : task'[other] = task[other]]_vars

C25_Witness ==
    \E th \in Threads :
        /\ scan[th].pc = "done"
        /\ scan[th].emails = {}
        /\ scan[th].results = ZeroResults
        /\ DOMAIN store # {}

\* C26 - Cache hit: a task whose message id has a Record in the Store when
\* the task looks it up returns cached in that step, without a Store write,
\* and never goes on to classify; a task that returned cached adds one to
\* the report's cached count and to no other.
C26_CacheHitStops ==
    [][\A th \in Threads, i \in Ids :
          /\ (task[th][i].pc = "queued" /\ task'[th][i] # task[th][i]
                 /\ i \in DOMAIN store) =>
                 /\ task'[th][i].pc = "done"
                 /\ task'[th][i].status = "cached"
                 /\ task'[th][i].saved = "-"
                 /\ store' = store
                 /\ creates' = creates
          /\ (task[th][i].status = "cached" /\ ~task[th][i].collected
                 /\ task'[th][i].collected) =>
                 scan'[th].results = [scan[th].results EXCEPT !.cached = @ + 1]]_vars

\* calls let through at the ticks lo..hi
RECURSIVE AcquiredBetween(_, _)
AcquiredBetween(lo, hi) ==
    IF lo > hi THEN 0
    ELSE (IF lo \in DOMAIN acquired THEN acquired[lo] ELSE 0) + AcquiredBetween(lo + 1, hi)

\* C27 - Rate limit: at every time t the wrapper has let at most `calls`
\* calls through to analyze_email in the window of `period` ticks that
\* ends at t (the ticks after t - period up to t), whatever the
\* interleaving of the callers.
C27_WindowLimit ==
    \A t \in 0..MaxClock : AcquiredBetween(t - period + 1, t) <= calls

\* C28 - Throttle, never reject: no wrapper call ends in an exception of
\* the wrapper itself, and a call that found the list saturated reaches
\* analyze_email only after it has slept.
C28_ThrottleNeverFails ==
    \A c \in Callers :
        /\ caller[c].pc # "raised"
        /\ (caller[c].pc = "append" /\ caller[c].saturated) => caller[c].slept

\* the messages of the last /scan request that went through the try block
CountedBy(batch) ==
    {i \in batch : worker[i].result.kind = "data" /\ ~worker[i].result.cached}

\* C29 - No lost counter updates: when a /scan request of the app has
\* returned, ANALYTICS_DATA['total_processed'] has grown by the number of
\* messages of the batch that were processed (not cached, not failed), and
\* processed_count is the number of results handed back, under every
\* interleaving of the pool's workers.
C29_NoLostUpdates ==
    route.pc = "done" =>
        /\ analytics.total_processed = route.base + Cardinality(CountedBy(route.batch))
        /\ route.processed_count =
               Cardinality({i \in route.batch : worker[i].result.kind = "data"})

\* the columns a mark_as_* call may change
OwnColumns(op) ==
    IF op = "mark_as_sent" THEN {"sent", "sent_at"}
    ELSE IF op = "mark_as_archived" THEN {"archived"}
    ELSE {"deleted"}

FlagOf(op) ==
    IF op = "mark_as_sent" THEN "sent"
    ELSE IF op = "mark_as_archived" THEN "archived"
    ELSE "deleted"

\* C30 - Independent marks: a mark_as_sent / mark_as_archived /
\* mark_as_deleted call adds and removes no row, leaves every other row as
\* it was, and in the addressed row changes nothing but its own flag (and
\* sent_at for mark_as_sent): category, priority, reply, needs_reply,
\* is_fallback and the other two flags stay; when it returns True the
\* addressed row has the flag set.
C30_MarksIndependent ==
    [][lastMark'.n # lastMark.n =>
          LET i == lastMark'.id
              op == lastMark'.op
          IN  /\ DOMAIN store' = DOMAIN store
              /\ \A j \in DOMAIN store : j # i => store'[j] = store[j]
              /\ i \in DOMAIN store =>
                     /\ \A f \in (DOMAIN store[i]) \ OwnColumns(op) :
                            store'[i][f] = store[i][f]
                     /\ lastMark'.ret => store'[i][FlagOf(op)]
                     /\ ~lastMark'.ret => store'[i] = store[i]]_vars

C30_Witness ==
    /\ lastMark.op = "mark_as_archived"
    /\ lastMark.ret
    /\ lastMark.id \in DOMAIN store
    /\ store[lastMark.id].archived
    /\ store[lastMark.id].sent
    /\ ~store[lastMark.id].deleted
    /\ \E j \in DOMAIN store :
         /\ j # lastMark.id
         /\ store[j].deleted
         /\ ~store[j].archived

\* the flags and the classification columns of a row
Marks(row) == [sent |-> row.sent, archived |-> row.archived, deleted |-> row.deleted]

\* C31 - Idempotent marks: a mark_as_sent / mark_as_archived /
\* mark_as_deleted call that directly follows a successful call of the same
\* operation on the same id and itself runs its UPDATE leaves the three
\* flags and the classification columns of every row as the first call
\* left them; and on every table the operation applied twice returns True
\* both times.
C31_MarksIdempotent ==
    /\ [][(lastMark'.n # lastMark.n /\ lastMark'.repeat) =>
            /\ DOMAIN store' = DOMAIN store
            /\ \A j \in DOMAIN store :
                 /\ Marks(store'[j]) = Marks(store[j])
                 /\ Classification(store'[j]) = Classification(store[j])]_vars
    /\ [](\A i \in Ids :
            /\ mark_as_sent(mark_as_sent(store, i, FALSE).store, i, FALSE).ret
            /\ mark_as_archived(mark_as_archived(store, i, FALSE).store, i, FALSE).ret
            /\ mark_as_deleted(mark_as_deleted(store, i, FALSE).store, i, FALSE).ret)

C31_Witness ==
    /\ lastMark.op = "mark_as_archived"
    /\ lastMark.repeat
    /\ lastMark.ret
    /\ lastMark.id \in DOMAIN store
    /\ store[lastMark.id].archived
    /\ ~store[lastMark.id].sent

\* C35 - Monotone flags: a flag of a row that is set stays set, and the
\* row stays, through every later save and mark call.
C35_FlagsMonotone ==
    [][\A i \in DOMAIN store, f \in {"sent", "archived", "deleted"} :
          store[i][f] => (i \in DOMAIN store' /\ store'[i][f])]_vars

\* C40 - Mark without a Record: a mark_as_* call on an id that has no row
\* leaves the table exactly as it was, so a lookup of that id after the
\* call still finds nothing.
C40_MarkCreatesNothing ==
    [][(lastMark'.n # lastMark.n /\ lastMark'.id \notin DOMAIN store) =>
          /\ store' = store
          /\ ~get_email_analysis(store', lastMark'.id, FALSE).found]_vars

C40_Witness ==
    /\ lastMark.op = "mark_as_sent"
    /\ lastMark.ret
    /\ lastMark.id \notin DOMAIN store
    /\ DOMAIN store # {}

\* C39 - Spam is LOW: ultimate_app's calculate_priority, the scorer with
\* the floors 50 and 25, buckets every message of category Spam as LOW,
\* whatever the subject and the priority hint; the total never exceeds 10.
C39_SpamIsLow ==
    (probe.op = "calculate_priority" /\ variant = "ultimate_app"
        /\ Get(probe.ai_result, "category", "") = "Spam") =>
        \A k \in 1..Len(probe.evals) :
            probe.evals[k].bucket = "LOW" /\ probe.evals[k].score <= 10

C39_Witness ==
    /\ probe.op = "calculate_priority"
    /\ variant = "ultimate_app"
    /\ probe.ai_result = [category |-> "Spam", priority |-> "High"]
    /\ Contains(probe.subject, <<"U","R","G","E","N","T">>)
    /\ Len(probe.evals) >= 1
    /\ probe.evals[1].score = 10
    /\ probe.evals[1].bucket = "LOW"

\* the verdict with needs_reply filled in from the reply text when absent
WithDefault(data) ==
    IF "needs_reply" \in DOMAIN data THEN data
    ELSE [k \in DOMAIN data \cup {"needs_reply"} |->
            IF k = "needs_reply" THEN ~HasNoReplyNeeded(data["reply"]) ELSE data[k]]

OrderedSteps ==
    {<<"classify", "priority", "automation", "persist">>,
     <<"classify", "priority", "automation", "persist", "draft">>}

\* C32 - Pipeline order: a run of the pipeline on a message that is not a
\* cache hit classifies, computes the priority, applies the automation,
\* persists the record and only then, if at all, requests the draft; the
\* draft request never comes before the record is persisted.
C32_PipelineOrder ==
    (ret.state = "returned" /\ ret.op = "process_email" /\ ret.steps # <<>>) =>
        ret.steps \in OrderedSteps

\* C33 - Draft is best-effort: a task whose draft request failed still
\* ends as processed, with the Record of its message in the store, and the
\* report counts as errors only the tasks that ended as error.
C33_DraftBestEffort ==
    \A th \in Threads, i \in Ids :
        task[th][i].draft = "failed" =>
            /\ task[th][i].pc = "done"
            /\ task[th][i].status = "processed"
            /\ i \in DOMAIN store
            /\ scan[th].results.errors =
                  Cardinality({j \in Ids : task[th][j].collected
                                           /\ task[th][j].status = "error"})

\* C37 - One draft per id: over all scans, the tasks of one message id
\* request a draft at most once, also when the save of an earlier scan
\* failed and the id is processed again.
C37_OneDraftPerId ==
    \A i \in Ids : Cardinality({th \in Threads : task[th][i].draft # "-"}) <= 1

\* the step is a route call
RouteStep == Get(ret', "n", 0) # Get(ret, "n", 0)

\* C36 - Send at most once: no send request and no auto-pilot pass issues
\* a gateway send for a message whose Record is already marked sent.
C36_NoSendOnceSent ==
    [][RouteStep =>
          \A k \in 1..Len(ret'.ops) :
              ret'.ops[k].op = "send" =>
                  ~(ret'.ops[k].id \in DOMAIN store /\ store[ret'.ops[k].id].sent)]_vars

\* the routes that archive or delete on request
ArchiveDeleteRoutes ==
    {"archive_route", "delete_route", "archive_email", "delete_email", "batch_action"}

\* the gateway request behind each flag
RequestOf(flag) == IF flag = "archived" THEN "archive" ELSE "delete"

\* C38 - Flags follow the gateway: a call of an archive or delete route or
\* of the batch action sets the archived (deleted) flag of a Record only
\* when the gateway answered True to the archive (delete) request for that
\* id in that call, and a Record whose request did not succeed is left as
\* it was.
C38_FlagOnlyOnSuccess ==
    [][(RouteStep /\ ret'.op \in ArchiveDeleteRoutes) =>
          /\ DOMAIN store' = DOMAIN store
          /\ \A i \in DOMAIN store :
                /\ \A flag \in {"archived", "deleted"} :
                      (store'[i][flag] /\ ~store[i][flag]) =>
                          \E k \in 1..Len(ret'.ops) :
                              ret'.ops[k] = [op |-> RequestOf(flag), id |-> i,
                                             result |-> "True"]
                /\ (\A k \in 1..Len(ret'.ops) :
                        ret'.ops[k].id = i => ret'.ops[k].result # "True")
                   => store'[i] = store[i]]_vars

C38_Witness ==
    /\ ret.state = "returned"
    /\ ret.op = "batch_action"
    /\ ret.ops = <<[op |-> "archive", id |-> "m1", result |-> "True"],
                   [op |-> "archive", id |-> "m2", result |-> "False"]>>
    /\ DOMAIN store = Ids
    /\ store["m1"].archived
    /\ ~store["m2"].archived

====
